---- MODULE Spec2Model ----
(***************************************************************************)
(* Verification model of the course-administration utilities:              *)
(*   - course/canvas_update_schedule.py   (due dates + module rebuild)     *)
(*   - course/ursinus_canvas_update_rubrics.py (assignment + rubric sync)  *)
(*                                                                         *)
(* Strings are sequences of one-character strings, so that the regular     *)
(* expressions and the normalisations of the code are computed, not        *)
(* assumed.  Calendar dates are proleptic Gregorian ordinals, as returned  *)
(* by Python's date.toordinal().  An optional value is a sequence of       *)
(* length 0 (None / missing) or 1.                                         *)
(***************************************************************************)
EXTENDS Integers, Sequences, FiniteSets, TLC

VARIABLES
    \* ---- canvas_update_schedule.py: inputs
    fm,                 \* parsed YAML front matter of the syllabus
    apply,              \* args.apply
    base_url,           \* args.base_url: "" when the flag is absent
    \* ---- the remote course (the LMS behind the REST API)
    rModules,           \* sequence of module records
    rAssignments,       \* sequence of assignment records
    rPages,             \* sequence of wiki page records
    nextId,             \* next id the server hands out
    failsLeft,          \* how many remote calls may still fail in this run
    \* ---- canvas_update_schedule.py: program state of main()
    pc,                 \* position in main / apply_due_dates / rebuild_all_modules
    plan,               \* SyllabusPlan
    due_map,            \* insertion-ordered dict: sequence of [key, iso]
    actions,            \* the action log (List[str]) as structured entries
    requests,           \* every HTTP request sent, in order
    loc,                \* local variables of the running function
    exitCode,           \* return value of main: <<>> while running
    \* ---- ursinus_canvas_update_rubrics.py
    rub,                \* state of the rubric script (record)
    \* ---- syllabus_markdown_table_generator: generate-schedule.py, markdown-to-csv.py
    conv,               \* the CSV row, the YAML printed for it, the CSV row written back
    \* ---- scheduler.py
    board,              \* the file on disk and the ScheduleApp object editing it
    \* ---- attendance_report.py
    att,                \* the table read from the CSV and the locals of main
    \* ---- canvas_update_schedule.py run twice (usage steps 3 and 4)
    dry_log             \* the action log of the dry run before this run: <<>> when none

updInputs == <<fm, apply, base_url>>
remoteVars == <<rModules, rAssignments, rPages, nextId, failsLeft>>
progVars == <<pc, plan, due_map, actions, requests, loc, exitCode>>
vars == <<fm, apply, base_url, rModules, rAssignments, rPages, nextId, failsLeft,
          pc, plan, due_map, actions, requests, loc, exitCode, rub, conv, board, att, dry_log>>

-----------------------------------------------------------------------------
(* Characters and strings                                                  *)

LowerAlpha ==
    <<"a","b","c","d","e","f","g","h","i","j","k","l","m",
      "n","o","p","q","r","s","t","u","v","w","x","y","z">>
UpperAlpha ==
    <<"A","B","C","D","E","F","G","H","I","J","K","L","M",
      "N","O","P","Q","R","S","T","U","V","W","X","Y","Z">>
Digits == <<"0","1","2","3","4","5","6","7","8","9">>

\* The characters used, in code-point order (Python compares str by code point).
Alphabet == <<" ", "-", ".", "/">> \o Digits \o <<":">> \o UpperAlpha
            \o <<"_">> \o LowerAlpha

Range(s) == {s[i] : i \in DOMAIN s}

Chars == Range(Alphabet)

\* ord(c), up to an order-preserving renumbering
OrdOf == [c \in Chars |-> CHOOSE i \in DOMAIN Alphabet : Alphabet[i] = c]

Ord(c) == OrdOf[c]

IsSpace(c) == c = " "

UpperChars == Range(UpperAlpha)
AlphaChars == Range(LowerAlpha) \cup Range(UpperAlpha)
DigitChars == Range(Digits)
WordChars == AlphaChars \cup DigitChars \cup {"_"}

IsUpper(c) == c \in UpperChars

\* \w of the re module
IsWordChar(c) == c \in WordChars

IsAlpha(c) == c \in AlphaChars

LowerOf ==
    [c \in Chars |->
        IF c \in UpperChars
        THEN LowerAlpha[CHOOSE i \in DOMAIN UpperAlpha : UpperAlpha[i] = c]
        ELSE c]

LowerChar(c) == LowerOf[c]

\* str.lower()
Lower(s) == [i \in DOMAIN s |-> LowerChar(s[i])]

\* str.strip()
Strip(s) ==
    LET ns == {i \in DOMAIN s : ~IsSpace(s[i])}
    IN  IF ns = {} THEN <<>>
        ELSE SubSeq(s, CHOOSE i \in ns : \A j \in ns : i <= j,
                       CHOOSE i \in ns : \A j \in ns : i >= j)

RECURSIVE KeepIdx(_, _, _)
\* the subsequence of s at the indices >= i that are in keep
KeepIdx(s, keep, i) ==
    IF i > Len(s) THEN <<>>
    ELSE (IF i \in keep THEN <<s[i]>> ELSE <<>>) \o KeepIdx(s, keep, i + 1)

\* re.sub(r"\s+", " ", s): every run of whitespace becomes one space
CollapseWs(s) ==
    KeepIdx(s, {i \in DOMAIN s : ~(IsSpace(s[i]) /\ i > 1 /\ IsSpace(s[i-1]))}, 1)

StartsWith(s, p) == Len(p) <= Len(s) /\ SubSeq(s, 1, Len(p)) = p

EndsWith(s, p) == Len(p) <= Len(s) /\ SubSeq(s, Len(s) - Len(p) + 1, Len(s)) = p

\* Python's `sub in s`
Contains(s, sub) ==
    \E i \in 0..(Len(s) - Len(sub)) : SubSeq(s, i + 1, i + Len(sub)) = sub

\* s < t for Python strings (lexicographic by code point)
StrLess(s, t) ==
    \E k \in 1..Len(t) :
        /\ k - 1 <= Len(s)
        /\ SubSeq(s, 1, k - 1) = SubSeq(t, 1, k - 1)
        /\ (k > Len(s) \/ Ord(s[k]) < Ord(t[k]))

\* number of leading spaces of s
LeadSpaces(s) ==
    LET ns == {i \in DOMAIN s : ~IsSpace(s[i])}
    IN  IF ns = {} THEN Len(s) ELSE (CHOOSE i \in ns : \A j \in ns : i <= j) - 1

\* number of trailing spaces of s
TrailSpaces(s) ==
    LET ns == {i \in DOMAIN s : ~IsSpace(s[i])}
    IN  IF ns = {} THEN Len(s) ELSE Len(s) - (CHOOSE i \in ns : \A j \in ns : i >= j)

DropFirst(s, n) == SubSeq(s, n + 1, Len(s))

DropLast(s, n) == SubSeq(s, 1, Len(s) - n)

_norm_LowerOnly(s) == Lower(s)

_norm(s) == Lower(Strip(CollapseWs(s)))

sActivity == <<"a","c","t","i","v","i","t","y">>
sAssignment == <<"a","s","s","i","g","n","m","e","n","t">>
sQuiz == <<"q","u","i","z">>
sDue == <<"d","u","e">>
sHanded == <<"h","a","n","d","e","d">>
sOut == <<"o","u","t">>
sHandedOut == sHanded \o <<" ">> \o sOut

\* re.sub(r'^(activity|assignment|quiz)\s*:\s*', '', s, flags=re.IGNORECASE)
StripLeadingLabel(s) ==
    LET ls == Lower(s)
        labels == {l \in {sActivity, sAssignment, sQuiz} :
                      /\ StartsWith(ls, l)
                      /\ LET rest == DropFirst(s, Len(l))
                             r2 == DropFirst(rest, LeadSpaces(rest))
                         IN  r2 # <<>> /\ Head(r2) = ":"}
    IN  IF labels = {} THEN s
        ELSE LET l == CHOOSE l \in labels : TRUE
                 rest == DropFirst(s, Len(l))
                 r2 == Tail(DropFirst(rest, LeadSpaces(rest)))
             IN  DropFirst(r2, LeadSpaces(r2))

\* re.sub(r'\s+(Due|Handed Out)\s*$', '', s, flags=re.IGNORECASE)
StripTrailingMarker(s) ==
    LET t == DropLast(s, TrailSpaces(s))
        lt == Lower(t)
        cut(m) == LET before == DropLast(t, Len(m))
                  IN  DropLast(before, TrailSpaces(before))
        hit(m) == EndsWith(lt, m) /\ TrailSpaces(DropLast(t, Len(m))) >= 1
    IN  IF hit(sDue) THEN cut(sDue)
        ELSE IF hit(sHandedOut) THEN cut(sHandedOut)
        ELSE s

_strip_markers_NoLabel(title) == Strip(StripTrailingMarker(Strip(title)))

_strip_markers(title) == Strip(StripTrailingMarker(StripLeadingLabel(Strip(title))))

\* re.search(r"\bDue\b$", dtitle, flags=re.IGNORECASE)
EndsWithDueWord(s) ==
    /\ EndsWith(Lower(s), sDue)
    /\ (Len(s) = Len(sDue) \/ ~IsWordChar(s[Len(s) - Len(sDue)]))

\* re.search(r"\bHanded\s+Out\b$", dtitle, flags=re.IGNORECASE)
EndsWithHandedOutWord(s) ==
    /\ EndsWith(Lower(s), sOut)
    /\ LET b == DropLast(s, Len(sOut))
           sp == TrailSpaces(b)
           h == DropLast(b, sp)
       IN  /\ sp >= 1
           /\ EndsWith(Lower(h), sHanded)
           /\ (Len(h) = Len(sHanded) \/ ~IsWordChar(h[Len(h) - Len(sHanded)]))

-----------------------------------------------------------------------------
(* Calendar                                                                *)

\* datetime.strptime(s, "%Y/%m/%d").date(), as an ordinal: s is <<y, m, d>>
_parse_date_yyyy_slash_mm_slash_dd(s) ==
    LET y == IF s[2] <= 2 THEN s[1] - 1 ELSE s[1]
        era == y \div 400
        yoe == y - era * 400
        mp == IF s[2] > 2 THEN s[2] - 3 ELSE s[2] + 9
        doy == (153 * mp + 2) \div 5 + s[3] - 1
        doe == yoe * 365 + yoe \div 4 - yoe \div 100 + doy
    IN  era * 146097 + doe - 305

\* (year, month, day) of an ordinal: the fields of a datetime.date
Civil(ord) ==
    LET z == ord + 305
        era == z \div 146097
        doe == z - era * 146097
        yoe == (doe - doe \div 1460 + doe \div 36524 - doe \div 146096) \div 365
        doy == doe - (365 * yoe + yoe \div 4 - yoe \div 100)
        mp == (5 * doy + 2) \div 153
        d == doy - (153 * mp + 2) \div 5 + 1
        m == IF mp < 10 THEN mp + 3 ELSE mp - 9
        y == yoe + era * 400 + (IF m <= 2 THEN 1 ELSE 0)
    IN  <<y, m, d>>

\* date.weekday(): Monday is 0
Weekday(ord) == (ord + 6) % 7

DAY_ORDER == <<"M", "T", "W", "R", "F", "S", "U">>

DAY_TO_WEEKDAY(code) == (CHOOSE i \in DOMAIN DAY_ORDER : DAY_ORDER[i] = code) - 1

\* first Sunday on or after the ordinal d
SundayOnOrAfter(d) == d + ((6 - Weekday(d)) % 7)

\* America/New_York since 2007: daylight time from the second Sunday of March,
\* 02:00, to the first Sunday of November, 02:00.
DstStart(y) == SundayOnOrAfter(_parse_date_yyyy_slash_mm_slash_dd(<<y, 3, 1>>)) + 7
DstEnd(y) == SundayOnOrAfter(_parse_date_yyyy_slash_mm_slash_dd(<<y, 11, 1>>))

\* bool(datetime.combine(d, time(12)).replace(tzinfo=zone).dst())
_local_is_dst(d) ==
    LET y == Civil(d)[1]
    IN  d >= DstStart(y) /\ d < DstEnd(y)

-----------------------------------------------------------------------------
(* Syllabus plan: _extract_plan and its helpers                            *)

\* Optional values: <<>> is None / missing, <<v>> is the value v.
None == <<>>
Some(v) == <<v>>
IsSome(o) == Len(o) = 1

\* for d in DAY_ORDER: if days.get(f"is{d}", False): active.append(d)
_active_days_from(f) ==
    KeepIdx(DAY_ORDER, {i \in DOMAIN DAY_ORDER : DAY_ORDER[i] \in f.class_meets_days}, 1)

_first_monday_on_or_before_Identity(d) == d

\* d - timedelta(days=d.weekday())
_first_monday_on_or_before(d) == d - Weekday(d)

_compute_date_for_week_and_ordinal(course_start, day_code, week) ==
    LET w0_monday == _first_monday_on_or_before(course_start)
        target_wd == DAY_TO_WEEKDAY(day_code)
        monday == w0_monday + 7 * week
    IN  monday + target_wd

\* re.match(r'^[A-Za-z][A-Za-z0-9 ]*\s*:\s*', s.strip())
_starts_with_label(s0) ==
    LET s == Strip(s0)
        stop == {i \in DOMAIN s : ~(IsAlpha(s[i]) \/ s[i] \in DigitChars \/ IsSpace(s[i]))}
    IN  /\ s # <<>>
        /\ IsAlpha(s[1])
        /\ stop # {}
        /\ s[CHOOSE i \in stop : \A j \in stop : i <= j] = ":"

sActivityLabel == <<"A","c","t","i","v","i","t","y",":">>

\* _canon_title inside _as_items_list(obj, default_prefix="Activity:")
_canon_title(t0) ==
    LET t == Strip(t0)
    IN  IF t = <<>> THEN t
        ELSE IF ~_starts_with_label(t) THEN sActivityLabel \o <<" ">> \o t
        ELSE t

RECURSIVE _as_items_list(_)
\* activities: a list of dicts {title, url}; items without a title are dropped
_as_items_list(obj) ==
    IF obj = <<>> THEN <<>>
    ELSE LET it == Head(obj)
             t == Strip(it.title)
             u == Strip(it.url)
         IN  (IF t = <<>> THEN <<>> ELSE <<[title |-> _canon_title(t), url |-> u]>>)
             \o _as_items_list(Tail(obj))

RECURSIVE ReadingsOf(_)
\* readings: a list of dicts {rtitle, rlink}; entries without a title are dropped
ReadingsOf(reads_raw) ==
    IF reads_raw = <<>> THEN <<>>
    ELSE LET r == Head(reads_raw)
             rt == Strip(r.rtitle)
             ru == Strip(r.rlink)
         IN  (IF rt = <<>> THEN <<>> ELSE <<[title |-> rt, url |-> ru]>>)
             \o ReadingsOf(Tail(reads_raw))

\* the guard of line 292, as "the row is kept"
OrdinalInRange_NoUpper(ordinal, n) == ordinal >= 0

OrdinalInRange_NoLower(ordinal, n) == ordinal < n

\* active_days[ordinal]: a negative index counts from the end of the list
ListItem(list, index) ==
    IF index < 0 THEN list[Len(list) + index + 1] ELSE list[index + 1]

OrdinalInRange(ordinal, n) == ~(ordinal < 0 \/ ordinal >= n)

\* the rows of the schedule that yield a meeting
RowKept(entry, active_days) ==
    /\ IsSome(entry.week)
    /\ IsSome(entry.date)
    /\ OrdinalInRange(entry.date[1], Len(active_days))

MeetingOf(entry, course_start, active_days) ==
    [week |-> entry.week[1],
     ordinal_in_week |-> entry.date[1],
     title |-> Strip(entry.title),
     date |-> _compute_date_for_week_and_ordinal(
                  course_start, ListItem(active_days, entry.date[1]), entry.week[1]),
     link |-> Strip(entry.link),
     activities |-> _as_items_list(entry.activities),
     readings |-> ReadingsOf(entry.readings)]

RECURSIVE DeliverablesOf(_, _, _, _)
\* the deliverables of one row that are Due (wantDue) or Handed Out (~wantDue)
DeliverablesOf(ds, w, ordinal, wantDue) ==
    IF ds = <<>> THEN <<>>
    ELSE LET dtitle == Strip(Head(ds).dtitle)
             isDue == dtitle # <<>> /\ EndsWithDueWord(dtitle)
             isOut == dtitle # <<>> /\ ~EndsWithDueWord(dtitle) /\ EndsWithHandedOutWord(dtitle)
             rec == [title |-> dtitle, week |-> w, ordinal_in_week |-> ordinal, due |-> wantDue]
         IN  (IF (wantDue /\ isDue) \/ (~wantDue /\ isOut) THEN <<rec>> ELSE <<>>)
             \o DeliverablesOf(Tail(ds), w, ordinal, wantDue)

RECURSIVE CollectMeetings(_, _, _)
CollectMeetings(schedule, course_start, active_days) ==
    IF schedule = <<>> THEN <<>>
    ELSE (IF RowKept(Head(schedule), active_days)
          THEN <<MeetingOf(Head(schedule), course_start, active_days)>>
          ELSE <<>>)
         \o CollectMeetings(Tail(schedule), course_start, active_days)

RECURSIVE CollectDeliverables(_, _, _)
CollectDeliverables(schedule, active_days, wantDue) ==
    IF schedule = <<>> THEN <<>>
    ELSE (IF RowKept(Head(schedule), active_days)
          THEN DeliverablesOf(Head(schedule).deliverables, Head(schedule).week[1],
                              Head(schedule).date[1], wantDue)
          ELSE <<>>)
         \o CollectDeliverables(Tail(schedule), active_days, wantDue)

\* key=lambda m: (m.week, m.ordinal_in_week)
MeetingKeyLess(a, b) ==
    \/ a.week < b.week
    \/ (a.week = b.week /\ a.ordinal_in_week < b.ordinal_in_week)

\* key=lambda d: (d.week, d.ordinal_in_week, _norm(d.title))
DeliverableKeyLess(a, b) ==
    \/ MeetingKeyLess(a, b)
    \/ /\ a.week = b.week
       /\ a.ordinal_in_week = b.ordinal_in_week
       /\ StrLess(_norm(a.title), _norm(b.title))

\* the sort key in use: meetings (byTitle = FALSE) or deliverables (byTitle = TRUE)
KeyLess(a, b, byTitle) ==
    IF byTitle THEN DeliverableKeyLess(a, b) ELSE MeetingKeyLess(a, b)

RECURSIVE InsertSorted(_, _, _)
\* x goes after every element that is not greater than it (list.sort is stable)
InsertSorted(s, x, byTitle) ==
    IF s = <<>> THEN <<x>>
    ELSE IF KeyLess(x, Head(s), byTitle) THEN <<x>> \o s
    ELSE <<Head(s)>> \o InsertSorted(Tail(s), x, byTitle)

RECURSIVE SortBy(_, _)
SortBy(s, byTitle) ==
    IF s = <<>> THEN <<>>
    ELSE InsertSorted(SortBy(SubSeq(s, 1, Len(s) - 1), byTitle), s[Len(s)], byTitle)

SortMeetings_Unsorted(ms) == ms

SortMeetings(ms) == SortBy(ms, FALSE)

_extract_plan(f) ==
    LET course_start == _parse_date_yyyy_slash_mm_slash_dd(f.course_start_date)
        active_days == _active_days_from(f)
    IN  [meetings |-> SortMeetings(CollectMeetings(f.schedule, course_start, active_days)),
         deliverables_due |->
             SortBy(CollectDeliverables(f.schedule, active_days, TRUE), TRUE),
         deliverables_handed_out |->
             SortBy(CollectDeliverables(f.schedule, active_days, FALSE), TRUE)]

-----------------------------------------------------------------------------
(* Due map: build_due_map                                                  *)

RECURSIVE due_date_for(_, _)
\* the date of the first meeting with the deliverable's (week, ordinal)
due_date_for(d, meetings) ==
    IF meetings = <<>> THEN None
    ELSE IF Head(meetings).week = d.week /\ Head(meetings).ordinal_in_week = d.ordinal_in_week
    THEN Some(Head(meetings).date)
    ELSE due_date_for(d, Tail(meetings))

DueHourDst == 3
DueHourStd == 4

\* datetime(y, m, d, h, 59, 59, tzinfo=UTC).isoformat().replace("+00:00", "Z")
IsoZ(date, hour) == Civil(date) \o <<hour, 59, 59>>

DueIsoFor_MeetingDay(base_date) ==
    IF _local_is_dst(base_date) THEN IsoZ(base_date + 1, DueHourDst)
    ELSE IsoZ(base_date + 1, DueHourStd)

\* lines 584-590: eff_date = base_date + 1 day, hour by _local_is_dst(eff_date)
DueIsoFor(base_date) ==
    LET eff_date == base_date + 1
    IN  IF _local_is_dst(eff_date) THEN IsoZ(eff_date, DueHourDst)
        ELSE IsoZ(eff_date, DueHourStd)

\* dict assignment m[key] = val on an insertion-ordered dict
DictPut(m, key, val) ==
    IF \E i \in DOMAIN m : m[i].key = key
    THEN [i \in DOMAIN m |-> IF m[i].key = key THEN [key |-> key, iso |-> val] ELSE m[i]]
    ELSE Append(m, [key |-> key, iso |-> val])

DictHas(m, key) == \E i \in DOMAIN m : m[i].key = key

DictGet(m, key) == m[CHOOSE i \in DOMAIN m : m[i].key = key].iso

DueKey(d) == _norm(_strip_markers(d.title))

RECURSIVE BuildDueMapFrom(_, _, _)
BuildDueMapFrom(ds, meetings, acc) ==
    IF ds = <<>> THEN acc
    ELSE BuildDueMapFrom(Tail(ds), meetings,
             DictPut(acc, DueKey(Head(ds)), DueIsoFor(due_date_for(Head(ds), meetings)[1])))

build_due_map(p) == BuildDueMapFrom(p.deliverables_due, p.meetings, <<>>)

-----------------------------------------------------------------------------
(* The remote course and the HTTP layer (CanvasClient)                     *)

\* one HTTP request: method, resource, id of the module / assignment, id of the item
Req(m, res, id, sub) == [m |-> m, res |-> res, id |-> id, sub |-> sub]

\* one entry of the action log: "[tag] ..." with the values it is formatted from
Entry(tag, kind, mod, num, date, txt) ==
    [tag |-> tag, kind |-> kind, dry |-> FALSE, mod |-> mod, num |-> num,
     date |-> date, txt |-> txt]

\* the same entry with the "(dry-run)" marker
DryEntry(tag, kind, mod, num, date, txt) ==
    [tag |-> tag, kind |-> kind, dry |-> TRUE, mod |-> mod, num |-> num,
     date |-> date, txt |-> txt]

\* whether a remote call may answer with an error status now
MayFail == failsLeft > 0

\* the outcomes of one remote call: TRUE is success
Outcomes == IF MayFail THEN {TRUE, FALSE} ELSE {TRUE}

\* budget left after n calls of which the ones in `oks` are the outcomes
Spend(oks) == failsLeft - Cardinality({i \in DOMAIN oks : ~oks[i]})

IndexOfId(seq, id) == CHOOSE i \in DOMAIN seq : seq[i].id = id

HasId(seq, id) == \E i \in DOMAIN seq : seq[i].id = id

RemoveId(seq, id) == KeepIdx(seq, {i \in DOMAIN seq : seq[i].id # id}, 1)

-----------------------------------------------------------------------------
(* main(): plan extraction and due map                                     *)

\* main, lines 923-971: any exception ends the run with exit code 1
Abort_ReturnZero ==
    /\ pc' = "done"
    /\ exitCode' = Some(0)

\* lines 966-968: except Exception: _err("main", e); return 1
Abort ==
    /\ pc' = "done"
    /\ exitCode' = Some(1)

\* plan = _extract_plan(fm); raises ValueError without active meeting days
ExtractPlan ==
    /\ pc = "start"
    /\ IF _active_days_from(fm) = <<>>
       THEN /\ Abort
            /\ UNCHANGED plan
       ELSE /\ plan' = _extract_plan(fm)
            /\ pc' = "build_due_map"
            /\ UNCHANGED exitCode
    /\ UNCHANGED <<att, dry_log, board, conv, fm, apply, base_url, remoteVars, due_map, actions, requests, loc, rub>>

\* due_map = build_due_map(plan, tz_name)
BuildDueMap ==
    /\ pc = "build_due_map"
    /\ due_map' = build_due_map(plan)
    /\ pc' = "due_list"
    /\ UNCHANGED <<att, dry_log, board, conv, fm, apply, base_url, remoteVars, plan, actions, requests, loc, exitCode, rub>>

-----------------------------------------------------------------------------
(* Name matching                                                           *)

AssignmentKey(a) == _norm(_strip_markers(a.name))

\* first pass of find_best_assignment_match: indices of the exact matches
ExactMatches(assignments, target_key) ==
    {i \in DOMAIN assignments : AssignmentKey(assignments[i]) = target_key}

\* second pass: nm.startswith(target_key) or target_key in nm
LooseMatches(assignments, target_key) ==
    {i \in DOMAIN assignments :
        LET nm == AssignmentKey(assignments[i])
        IN  StartsWith(nm, target_key) \/ Contains(nm, target_key)}

MinOf(S) == CHOOSE i \in S : \A j \in S : i <= j

MaxOf(S) == CHOOSE i \in S : \A j \in S : i >= j

find_best_assignment_match_OnePass(assignments, target_key) ==
    IF LooseMatches(assignments, target_key) # {}
    THEN Some(assignments[MinOf(LooseMatches(assignments, target_key))])
    ELSE None

\* the matched assignment as an optional value
find_best_assignment_match(assignments, target_key) ==
    IF ExactMatches(assignments, target_key) # {}
    THEN Some(assignments[MinOf(ExactMatches(assignments, target_key))])
    ELSE IF LooseMatches(assignments, target_key) # {}
    THEN Some(assignments[MinOf(LooseMatches(assignments, target_key))])
    ELSE None

-----------------------------------------------------------------------------
(* rebuild_all_modules: helpers                                            *)

sActivityColonSp == sActivityLabel \o <<" ">>

\* length of one leading match of activity\s*:\s* (case-insensitive), 0 if none
ActivityPrefixLen(s) ==
    IF ~StartsWith(Lower(s), sActivity) THEN 0
    ELSE LET rest == DropFirst(s, Len(sActivity))
             sp1 == LeadSpaces(rest)
             r2 == DropFirst(rest, sp1)
         IN  IF r2 = <<>> \/ Head(r2) # ":" THEN 0
             ELSE Len(sActivity) + sp1 + 1 + LeadSpaces(Tail(r2))

RECURSIVE StripActivityPrefixes(_)
\* re.sub(r'^(?:activity\s*:\s*)+', '', s, flags=re.IGNORECASE)
StripActivityPrefixes(s) ==
    IF ActivityPrefixLen(s) = 0 THEN s
    ELSE StripActivityPrefixes(DropFirst(s, ActivityPrefixLen(s)))

\* lines 478-483: exactly one leading "Activity:" label
_activity_title_label(title) ==
    LET s == StripActivityPrefixes(Strip(title))
    IN  IF s # <<>> THEN sActivityColonSp \o s ELSE sActivityLabel

\* line 706: re.sub(r'^(?:activity\s*:\s*){2,}', 'Activity: ', title.strip())
CollapseActivityLabels(title) ==
    LET t == Strip(title)
        n1 == ActivityPrefixLen(t)
    IN  IF n1 > 0 /\ ActivityPrefixLen(DropFirst(t, n1)) > 0
        THEN sActivityColonSp \o StripActivityPrefixes(t)
        ELSE t

sHttp == <<"h","t","t","p",":","/","/">>
sHttps == <<"h","t","t","p","s",":","/","/">>

RECURSIVE RStripSlash(_)
\* base_url.rstrip('/')
RStripSlash(s) ==
    IF s # <<>> /\ s[Len(s)] = "/" THEN RStripSlash(DropLast(s, 1)) ELSE s

\* _resolve_url: an optional string
_resolve_url(url, base) ==
    IF url = <<>> THEN None
    ELSE LET u == Strip(url)
         IN  IF StartsWith(Lower(u), sHttp) \/ StartsWith(Lower(u), sHttps) THEN Some(u)
             ELSE IF base # <<>> THEN Some(RStripSlash(base) \o <<"/">> \o u)
             ELSE None

\* _index_assignments_by_base_name: for equal base names the last one wins
_index_assignments_by_base_name(assignments) ==
    [k \in {AssignmentKey(assignments[i]) : i \in DOMAIN assignments} |->
        assignments[MaxOf({i \in DOMAIN assignments : AssignmentKey(assignments[i]) = k})]]

\* _index_pages_by_title
_index_pages_by_title(pages) ==
    [k \in {_norm(pages[i].title) : i \in DOMAIN pages} |->
        pages[MaxOf({i \in DOMAIN pages : _norm(pages[i].title) = k})]]

\* dict.get(key) as an optional value
Get(f, k) == IF k \in DOMAIN f THEN Some(f[k]) ELSE None

\* a.get("html_url") or a.get("url"): the model's assignments carry html_url only
_assignment_url(a) == a.html_url

\* f"{_date_header(date)} - {title.strip()}": the date and the title it is made of
ModName(date, title) == [date |-> Some(date), title |-> Strip(title)]

\* sorted({m.date for m in plan.meetings})
_sorted_meeting_dates(p) ==
    LET ds == {p.meetings[i].date : i \in DOMAIN p.meetings}
        F[S \in SUBSET ds] ==
            IF S = {} THEN <<>> ELSE <<MinOf(S)>> \o F[S \ {MinOf(S)}]
    IN  F[ds]

RECURSIVE _next_meeting_on_or_after(_, _)
_next_meeting_on_or_after(d0, meeting_dates) ==
    IF meeting_dates = <<>> THEN None
    ELSE IF Head(meeting_dates) >= d0 THEN Some(Head(meeting_dates))
    ELSE _next_meeting_on_or_after(d0, Tail(meeting_dates))

\* the operations of step 5 for one meeting, in order
OpsOfMeeting(mi, mtg) ==
    (IF mtg.link # <<>>
     THEN <<[kind |-> "page_or_url", mi |-> mi,
             title |-> _activity_title_label(mtg.title), url |-> mtg.link]>>
     ELSE <<>>)
    \o [k \in DOMAIN mtg.activities |->
          [kind |-> "page_or_url", mi |-> mi,
           title |-> _activity_title_label(mtg.activities[k].title),
           url |-> mtg.activities[k].url]]
    \o [k \in DOMAIN mtg.readings |->
          IF mtg.readings[k].url # <<>>
          THEN [kind |-> "page_or_url", mi |-> mi,
                title |-> Strip(mtg.readings[k].title), url |-> mtg.readings[k].url]
          ELSE [kind |-> "subheader", mi |-> mi,
                title |-> Strip(mtg.readings[k].title), url |-> <<>>]]

RECURSIVE PopulateOpsFrom(_, _)
PopulateOpsFrom(meetings, mi) ==
    IF mi > Len(meetings) THEN <<>>
    ELSE OpsOfMeeting(mi, meetings[mi]) \o PopulateOpsFrom(meetings, mi + 1)

\* step 5 of rebuild_all_modules as the list of helper calls it makes
PopulateOps(p) == PopulateOpsFrom(p.meetings, 1)

\* ---- the order of the phases of main() ----
Phases == <<"due_loop", "mod_list", "create_loop", "lookup_assignments", "lookup_pages",
            "populate", "handouts", "dues", "unpublish", "finish">>

UnpublishPass_Always(ap) == TRUE

\* line 878: if apply:
UnpublishPass(ap) == ap

\* number of iterations of a loop phase; -1 for a phase that is one step
LoopLen(phase) ==
    CASE phase = "due_loop" -> Len(due_map)
      [] phase = "create_loop" -> Len(plan.meetings)
      [] phase = "populate" -> Len(PopulateOps(plan))
      [] phase = "handouts" -> Len(plan.deliverables_handed_out)
      [] phase = "dues" -> Len(plan.deliverables_due)
      [] phase = "unpublish" -> IF UnpublishPass(apply) THEN Len(plan.meetings) ELSE 0
      [] OTHER -> -1

PhaseIndex(phase) == CHOOSE i \in DOMAIN Phases : Phases[i] = phase

RECURSIVE Enter(_)
\* the phase that runs next when control reaches `phase`: empty loops are passed over
Enter(phase) ==
    IF LoopLen(phase) = 0 THEN Enter(Phases[PhaseIndex(phase) + 1]) ELSE phase

\* control after iteration i of a loop phase: <<pc, i>>
AfterIter(phase, i) ==
    IF i < LoopLen(phase) THEN <<phase, i + 1>>
    ELSE <<Enter(Phases[PhaseIndex(phase) + 1]), 1>>

-----------------------------------------------------------------------------
(* apply_due_dates                                                         *)

\* the server's handling of PUT assignments/<id> {due_at}
SetDueAt(assignments, id, iso) ==
    [i \in DOMAIN assignments |->
        IF assignments[i].id = id THEN [assignments[i] EXCEPT !.due_at = iso]
        ELSE assignments[i]]

SendsUpdate_Always(ap) == TRUE

\* line 908: if apply:
SendsUpdate(ap) == ap

AlreadyDue_Never(current_due, iso_due) == FALSE

\* line 904: if current_due == iso_due
AlreadyDue(current_due, iso_due) == current_due = iso_due

\* assignments = client.list_assignments(); raise_for_status aborts the run
DueListAssignments ==
    /\ pc = "due_list"
    /\ requests' = Append(requests, Req("GET", "assignments", 0, 0))
    /\ \E ok \in Outcomes :
        /\ failsLeft' = Spend(<<ok>>)
        /\ IF ok
           THEN /\ loc' = [loc EXCEPT !.assignments = rAssignments, !.i = 1]
                /\ pc' = Enter("due_loop")
                /\ UNCHANGED exitCode
           ELSE /\ Abort
                /\ UNCHANGED loc
    /\ UNCHANGED <<att, dry_log, board, conv, fm, apply, base_url, rModules, rAssignments, rPages, nextId,
                   plan, due_map, actions, rub>>

\* one iteration of `for key, iso_due in due_map.items()`
DueStep ==
    /\ pc = "due_loop"
    /\ loc.i <= Len(due_map)
    /\ LET key == due_map[loc.i].key
           iso_due == due_map[loc.i].iso
           m == find_best_assignment_match(loc.assignments, key)
       IN  IF ~IsSome(m)
           THEN /\ actions' = Append(actions, Entry("warn", "due", 0, 0, 0, key))
                /\ UNCHANGED <<requests, rAssignments, failsLeft>>
           ELSE IF AlreadyDue(m[1].due_at, iso_due)
           THEN /\ actions' = Append(actions, Entry("skip", "due", 0, m[1].id, 0, key))
                /\ UNCHANGED <<requests, rAssignments, failsLeft>>
           ELSE IF SendsUpdate(apply)
           THEN /\ requests' = Append(requests, Req("PUT", "assignment", m[1].id, 0))
                /\ \E ok \in Outcomes :
                    /\ failsLeft' = Spend(<<ok>>)
                    /\ IF ok
                       THEN /\ rAssignments' = SetDueAt(rAssignments, m[1].id, iso_due)
                            /\ actions' = Append(actions,
                                              Entry("update", "due", 0, m[1].id, 0, key))
                       ELSE /\ actions' = actions
                                  \o <<Entry("update", "due", 0, m[1].id, 0, key),
                                       Entry("error", "due", 0, m[1].id, 0, key)>>
                            /\ UNCHANGED rAssignments
           ELSE /\ actions' = Append(actions, Entry("update", "due", 0, m[1].id, 0, key))
                /\ UNCHANGED <<requests, rAssignments, failsLeft>>
    /\ pc' = AfterIter("due_loop", loc.i)[1]
    /\ loc' = [loc EXCEPT !.i = AfterIter("due_loop", loc.i)[2]]
    /\ UNCHANGED <<att, dry_log, board, conv, fm, apply, base_url, rModules, rPages, nextId, plan, due_map,
                   exitCode, rub>>

-----------------------------------------------------------------------------
(* rebuild_all_modules                                                     *)

DeletesRemote_Always(ap) == TRUE

DeletesRemote_Never(ap) == FALSE

\* lines 641 and 649: if apply:
DeletesRemote(ap) == ap

CreatesRemote_Always(ap) == TRUE

\* line 660: if apply:
CreatesRemote(ap) == ap

AttachesRemote_Always(ap) == TRUE

\* lines 715, 732, 759, 777 and 834: if apply:
AttachesRemote(ap) == ap

\* the server's handling of DELETE modules/<mod>/items/<item>
RemoveItem(mods, mod_id, item_id) ==
    [i \in DOMAIN mods |->
        IF mods[i].id = mod_id
        THEN [mods[i] EXCEPT !.items = RemoveId(mods[i].items, item_id)]
        ELSE mods[i]]

\* the server's handling of POST modules/<mod>/items
AddItem(mods, mod_id, item) ==
    [i \in DOMAIN mods |->
        IF mods[i].id = mod_id
        THEN [mods[i] EXCEPT !.items = Append(mods[i].items, item)]
        ELSE mods[i]]

\* the server's handling of PUT modules/<mod> {published}
SetPublished(mods, mod_id, pub) ==
    [i \in DOMAIN mods |->
        IF mods[i].id = mod_id THEN [mods[i] EXCEPT !.published = pub] ELSE mods[i]]

ItemsOf(mods, mod_id) == mods[IndexOfId(mods, mod_id)].items

\* existing = client.list_modules()
ListModules ==
    /\ pc = "mod_list"
    /\ requests' = Append(requests, Req("GET", "modules", 0, 0))
    /\ \E ok \in Outcomes :
        /\ failsLeft' = Spend(<<ok>>)
        /\ IF ok
           THEN /\ loc' = [loc EXCEPT !.existing = rModules, !.i = 1]
                /\ pc' = IF rModules = <<>> THEN Enter("create_loop") ELSE "del_list_items"
                /\ UNCHANGED exitCode
           ELSE /\ Abort
                /\ UNCHANGED loc
    /\ UNCHANGED <<att, dry_log, board, conv, fm, apply, base_url, rModules, rAssignments, rPages, nextId,
                   plan, due_map, actions, rub>>

\* client.list_module_items(mod["id"]) for the module about to be deleted
ListModuleItems ==
    /\ pc = "del_list_items"
    /\ LET mod == loc.existing[loc.i]
       IN  /\ requests' = Append(requests, Req("GET", "module_items", mod.id, 0))
           /\ \E ok \in Outcomes :
               /\ failsLeft' = Spend(<<ok>>)
               /\ IF ok
                  THEN /\ loc' = [loc EXCEPT !.items = ItemsOf(rModules, mod.id), !.j = 1]
                       /\ pc' = IF ItemsOf(rModules, mod.id) = <<>>
                                THEN "del_module" ELSE "del_items"
                       /\ UNCHANGED exitCode
                  ELSE /\ Abort
                       /\ UNCHANGED loc
    /\ UNCHANGED <<att, dry_log, board, conv, fm, apply, base_url, rModules, rAssignments, rPages, nextId,
                   plan, due_map, actions, rub>>

\* lines 640-648: delete one item of an existing module
DeleteItem ==
    /\ pc = "del_items"
    /\ LET mod == loc.existing[loc.i]
           it == loc.items[loc.j]
       IN  IF DeletesRemote(apply)
           THEN /\ requests' = Append(requests, Req("DELETE", "module_item", mod.id, it.id))
                /\ \E ok \in Outcomes :
                    /\ failsLeft' = Spend(<<ok>>)
                    /\ IF ok
                       THEN /\ rModules' = RemoveItem(rModules, mod.id, it.id)
                            /\ actions' = Append(actions,
                                   Entry("del-item", "item", 0, 0, 0, it.title))
                       ELSE /\ actions' = Append(actions,
                                   Entry("error", "del-item", mod.id, it.id, 0, <<>>))
                            /\ UNCHANGED rModules
           ELSE /\ actions' = Append(actions, DryEntry("del-item", "item", 0, 0, 0, it.title))
                /\ UNCHANGED <<requests, rModules, failsLeft>>
    /\ IF loc.j < Len(loc.items)
       THEN /\ loc' = [loc EXCEPT !.j = loc.j + 1]
            /\ UNCHANGED pc
       ELSE /\ pc' = "del_module"
            /\ UNCHANGED loc
    /\ UNCHANGED <<att, dry_log, board, conv, fm, apply, base_url, rAssignments, rPages, nextId, plan, due_map,
                   exitCode, rub>>

\* lines 649-653: delete the module itself
DeleteModule ==
    /\ pc = "del_module"
    /\ LET mod == loc.existing[loc.i]
       IN  IF DeletesRemote(apply)
           THEN /\ requests' = Append(requests, Req("DELETE", "module", mod.id, 0))
                /\ \E ok \in Outcomes :
                    /\ failsLeft' = Spend(<<ok>>)
                    /\ IF ok
                       THEN /\ rModules' = RemoveId(rModules, mod.id)
                            /\ actions' = Append(actions,
                                   Entry("del-module", "module", 0, 0, 0, mod.name.title))
                       ELSE /\ actions' = Append(actions,
                                   Entry("error", "del-module", mod.id, 0, 0, <<>>))
                            /\ UNCHANGED rModules
           ELSE /\ actions' = Append(actions,
                       DryEntry("del-module", "module", 0, 0, 0, mod.name.title))
                /\ UNCHANGED <<requests, rModules, failsLeft>>
    /\ IF loc.i < Len(loc.existing)
       THEN /\ loc' = [loc EXCEPT !.i = loc.i + 1]
            /\ pc' = "del_list_items"
       ELSE /\ loc' = [loc EXCEPT !.i = 1]
            /\ pc' = Enter("create_loop")
    /\ UNCHANGED <<att, dry_log, board, conv, fm, apply, base_url, rAssignments, rPages, nextId, plan, due_map,
                   exitCode, rub>>

\* the position given to the next module after one was created at `position`
NextPosition_Same(position) == position

\* line 677: position += 1
NextPosition(position) == position + 1

\* lines 658-677: one iteration of `for mtg in plan.meetings`
CreateModule ==
    /\ pc = "create_loop"
    /\ LET mtg == plan.meetings[loc.i]
           position == loc.position
           nxt == AfterIter("create_loop", loc.i)
           recorded(mod_id) ==
               [loc EXCEPT !.date_to_module_id = (mtg.date :> mod_id) @@ @,
                           !.position = NextPosition(position),
                           !.i = nxt[2]]
           created == Entry("create-module", "module", 0, position, mtg.date, Strip(mtg.title))
       IN  /\ pc' = nxt[1]
           /\ IF CreatesRemote(apply)
              THEN \E ok1 \in Outcomes :
                     IF ~ok1
                     THEN /\ requests' = Append(requests, Req("POST", "modules", 0, 0))
                          /\ failsLeft' = Spend(<<ok1>>)
                          /\ actions' = Append(actions,
                                 Entry("error", "create-module", 0, position, mtg.date,
                                       Strip(mtg.title)))
                          /\ loc' = [loc EXCEPT !.i = nxt[2]]
                          /\ UNCHANGED <<rModules, nextId>>
                     ELSE \E ok2 \in Outcomes :
                          /\ requests' = requests \o <<Req("POST", "modules", 0, 0),
                                                       Req("PUT", "module", nextId, 0)>>
                          /\ failsLeft' = Spend(<<ok2>>)
                          /\ rModules' = Append(rModules,
                                 [id |-> nextId, name |-> ModName(mtg.date, mtg.title),
                                  position |-> position, published |-> TRUE,
                                  items |-> <<>>])
                          /\ nextId' = nextId + 1
                          /\ actions' = actions
                                 \o <<IF ok2
                                      THEN Entry("publish", "module", 0, 0, mtg.date,
                                                 Strip(mtg.title))
                                      ELSE Entry("warn", "publish-module", 0, 0, mtg.date,
                                                 Strip(mtg.title)),
                                      created>>
                          /\ loc' = recorded(nextId)
              ELSE /\ actions' = Append(actions, created)
                   /\ loc' = recorded(-position)
                   /\ UNCHANGED <<requests, rModules, nextId, failsLeft>>
    /\ UNCHANGED <<att, dry_log, board, conv, fm, apply, base_url, rAssignments, rPages, plan, due_map, exitCode, rub>>

\* line 682-683: assignments = client.list_assignments(); assign_by_base = ...
ListAssignmentsForModules ==
    /\ pc = "lookup_assignments"
    /\ requests' = Append(requests, Req("GET", "assignments", 0, 0))
    /\ \E ok \in Outcomes :
        /\ failsLeft' = Spend(<<ok>>)
        /\ IF ok
           THEN /\ loc' = [loc EXCEPT
                             !.assign_by_base = _index_assignments_by_base_name(rAssignments)]
                /\ pc' = "lookup_pages"
                /\ UNCHANGED exitCode
           ELSE /\ Abort
                /\ UNCHANGED loc
    /\ UNCHANGED <<att, dry_log, board, conv, fm, apply, base_url, rModules, rAssignments, rPages, nextId,
                   plan, due_map, actions, rub>>

\* line 684-685: pages = client.list_pages(); pages_by_title = ...
ListPages ==
    /\ pc = "lookup_pages"
    /\ requests' = Append(requests, Req("GET", "pages", 0, 0))
    /\ \E ok \in Outcomes :
        /\ failsLeft' = Spend(<<ok>>)
        /\ IF ok
           THEN /\ loc' = [loc EXCEPT !.pages_by_title = _index_pages_by_title(rPages),
                                      !.i = 1]
                /\ pc' = Enter("populate")
                /\ UNCHANGED exitCode
           ELSE /\ Abort
                /\ UNCHANGED loc
    /\ UNCHANGED <<att, dry_log, board, conv, fm, apply, base_url, rModules, rAssignments, rPages, nextId,
                   plan, due_map, actions, rub>>

AlreadyAttached_Never(attached, key) == FALSE

\* lines 711, 726, 756, 774, 827: if key in attached_...
AlreadyAttached(attached, key) == key \in attached

\* The shared tail of _add_page_or_url, _add_subheader, _attach_assignment_by_base and
\* the handout branch: de-dup guard, create_module_item, _publish_item, log entry.
\* `nxt` is the control state after the call.
Attach(guard, key, mod_id, item, addE, errE, skipE, nxt) ==
    /\ pc' = nxt[1]
    /\ IF AlreadyAttached(loc[guard], key)
       THEN /\ actions' = Append(actions, skipE)
            /\ loc' = [loc EXCEPT !.i = nxt[2]]
            /\ UNCHANGED <<requests, rModules, nextId, failsLeft>>
       ELSE IF AttachesRemote(apply)
       THEN \E ok1 \in Outcomes :
              IF ~ok1
              THEN /\ requests' = Append(requests, Req("POST", "module_items", mod_id, 0))
                   /\ failsLeft' = Spend(<<ok1>>)
                   /\ actions' = Append(actions, errE)
                   /\ loc' = [loc EXCEPT !.i = nxt[2]]
                   /\ UNCHANGED <<rModules, nextId>>
              ELSE \E ok2 \in Outcomes :
                   /\ requests' = requests \o <<Req("POST", "module_items", mod_id, 0),
                                                Req("PUT", "module_item", mod_id, nextId)>>
                   /\ failsLeft' = Spend(<<ok2>>)
                   /\ rModules' = AddItem(rModules, mod_id, [item EXCEPT !.id = nextId])
                   /\ nextId' = nextId + 1
                   /\ actions' = actions
                          \o <<IF ok2
                               THEN Entry("publish", "item", mod_id, 0, 0, addE.txt)
                               ELSE Entry("warn", "publish-item", mod_id, 0, 0, addE.txt),
                               addE>>
                   /\ loc' = [loc EXCEPT ![guard] = @ \cup {key}, !.i = nxt[2]]
       ELSE /\ actions' = Append(actions, [addE EXCEPT !.dry = TRUE])
            /\ loc' = [loc EXCEPT !.i = nxt[2]]
            /\ UNCHANGED <<requests, rModules, nextId, failsLeft>>

\* a step that only logs one entry
LogOnly(e, nxt) ==
    /\ pc' = nxt[1]
    /\ actions' = Append(actions, e)
    /\ loc' = [loc EXCEPT !.i = nxt[2]]
    /\ UNCHANGED <<requests, rModules, nextId, failsLeft>>

\* a step without any effect but the loop's progress
NoEffect(nxt) ==
    /\ pc' = nxt[1]
    /\ loc' = [loc EXCEPT !.i = nxt[2]]
    /\ UNCHANGED <<actions, requests, rModules, nextId, failsLeft>>

Item(type, content_id, ref, title) ==
    [id |-> 0, type |-> type, content_id |-> content_id, ref |-> ref, title |-> title]

\* lines 704-749
_add_page_or_url(mod_id, title0, url, nxt) ==
    LET title == CollapseActivityLabels(title0)
        p == Get(loc.pages_by_title, _norm(title))
        url_resolved == _resolve_url(url, base_url)
    IN  IF IsSome(p)
        THEN Attach("attached_pages", <<mod_id, p[1].url>>, mod_id,
                    Item("Page", 0, p[1].url, title),
                    Entry("add", "page", mod_id, 0, 0, title),
                    Entry("error", "page", mod_id, 0, 0, title),
                    Entry("skip", "page", mod_id, 0, 0, title), nxt)
        ELSE IF IsSome(url_resolved)
        THEN LET shown == IF title # <<>> THEN title ELSE url_resolved[1]
             IN  Attach("attached_links", <<mod_id, url_resolved[1]>>, mod_id,
                        Item("ExternalUrl", 0, url_resolved[1], title),
                        Entry("add", "link", mod_id, 0, 0, shown),
                        Entry("error", "link", mod_id, 0, 0, shown),
                        Entry("skip", "link", mod_id, 0, 0, shown), nxt)
        ELSE LogOnly(Entry("skip", "no-page-no-url", 0, 0, 0, title), nxt)

\* lines 751-766
_add_subheader(mod_id, title, nxt) ==
    LET t == Strip(title)
    IN  IF t = <<>> THEN NoEffect(nxt)
        ELSE Attach("attached_subheaders", <<mod_id, t>>, mod_id,
                    Item("SubHeader", 0, <<>>, t),
                    Entry("add", "note", mod_id, 0, 0, t),
                    Entry("error", "note", mod_id, 0, 0, t),
                    Entry("skip", "note", mod_id, 0, 0, t), nxt)

\* lines 768-784
_attach_assignment_by_base(mod_id, base_key_norm, nxt) ==
    LET a == Get(loc.assign_by_base, base_key_norm)
    IN  IF ~IsSome(a)
        THEN LogOnly(Entry("warn", "no-assignment-object", 0, 0, 0, base_key_norm), nxt)
        ELSE Attach("attached_assignments", <<mod_id, a[1].id>>, mod_id,
                    Item("Assignment", a[1].id, <<>>, a[1].name),
                    Entry("add", "assignment", mod_id, a[1].id, 0, a[1].name),
                    Entry("error", "assignment", mod_id, a[1].id, 0, a[1].name),
                    Entry("skip", "assignment", mod_id, a[1].id, 0, a[1].name), nxt)

\* lines 787-808: one helper call of step 5
PopulateStep ==
    /\ pc = "populate"
    /\ LET op == PopulateOps(plan)[loc.i]
           mod_id == Get(loc.date_to_module_id, plan.meetings[op.mi].date)
           nxt == AfterIter("populate", loc.i)
       IN  IF ~IsSome(mod_id) THEN NoEffect(nxt)
           ELSE IF op.kind = "subheader" THEN _add_subheader(mod_id[1], op.title, nxt)
           ELSE _add_page_or_url(mod_id[1], op.title, op.url, nxt)
    /\ UNCHANGED <<att, dry_log, board, conv, fm, apply, base_url, rAssignments, rPages, plan, due_map, exitCode, rub>>

sSpHandedOut == <<" ","H","a","n","d","e","d"," ","O","u","t">>

HandoutDay_Next(d, meetings) == due_date_for(d, meetings)[1] + 1

\* line 812: handout_day = due_date_for(d, plan)
HandoutDay(d, meetings) == due_date_for(d, meetings)[1]

\* lines 811-849: one iteration of `for d in plan.deliverables_handed_out`
HandoutStep ==
    /\ pc = "handouts"
    /\ LET d == plan.deliverables_handed_out[loc.i]
           handout_day == HandoutDay(d, plan.meetings)
           mod_id == Get(loc.date_to_module_id, handout_day)
           base_key_norm == DueKey(d)
           a == Get(loc.assign_by_base, base_key_norm)
           nxt == AfterIter("handouts", loc.i)
       IN  IF ~IsSome(mod_id)
           THEN LogOnly(Entry("warn", "no-handout-module", 0, 0, handout_day, d.title), nxt)
           ELSE IF ~IsSome(a)
           THEN LogOnly(Entry("warn", "no-handout-assignment", 0, 0, 0, d.title), nxt)
           ELSE IF _assignment_url(a[1]) = <<>>
           THEN LogOnly(Entry("warn", "no-html-url", 0, 0, 0, a[1].name), nxt)
           ELSE LET url == _resolve_url(_assignment_url(a[1]), base_url)
                    link_title == _strip_markers(d.title) \o sSpHandedOut
                IN  Attach("attached_handouts", <<mod_id[1], url>>, mod_id[1],
                           Item("ExternalUrl", 0, IF IsSome(url) THEN url[1] ELSE <<>>,
                                link_title),
                           Entry("add", "handout", 0, 0, handout_day, link_title),
                           Entry("error", "handout", 0, 0, handout_day, link_title),
                           Entry("skip", "handout", mod_id[1], 0, 0, a[1].name), nxt)
    /\ UNCHANGED <<att, dry_log, board, conv, fm, apply, base_url, rAssignments, rPages, plan, due_map, exitCode, rub>>

StudentDueDay_Nominal(meeting_day) == meeting_day + 1

\* lines 856-857: nominal_due_date = meeting_day + 1 day; student_due_day = nominal - 1 day
StudentDueDay(meeting_day) == (meeting_day + 1) - 1

\* lines 854-875: one iteration of `for d in plan.deliverables_due`
DueAttachStep ==
    /\ pc = "dues"
    /\ LET d == plan.deliverables_due[loc.i]
           meeting_day == due_date_for(d, plan.meetings)[1]
           student_due_day == StudentDueDay(meeting_day)
           target_day == IF student_due_day \in DOMAIN loc.date_to_module_id
                         THEN Some(student_due_day)
                         ELSE _next_meeting_on_or_after(student_due_day,
                                                        _sorted_meeting_dates(plan))
           nxt == AfterIter("dues", loc.i)
       IN  IF ~IsSome(target_day)
           THEN LogOnly(Entry("warn", "no-meeting-on-or-after", 0, 0, student_due_day,
                              d.title), nxt)
           ELSE IF ~IsSome(Get(loc.date_to_module_id, target_day[1]))
           THEN LogOnly(Entry("warn", "no-module-for-day", 0, 0, target_day[1], d.title), nxt)
           ELSE _attach_assignment_by_base(loc.date_to_module_id[target_day[1]],
                                           DueKey(d), nxt)
    /\ UNCHANGED <<att, dry_log, board, conv, fm, apply, base_url, rAssignments, rPages, plan, due_map, exitCode, rub>>

\* lines 879-890: one iteration of the unpublish pass (apply only)
UnpublishStep ==
    /\ pc = "unpublish"
    /\ LET mtg == plan.meetings[loc.i]
           mod_id == Get(loc.date_to_module_id, mtg.date)
           nxt == AfterIter("unpublish", loc.i)
       IN  IF ~IsSome(mod_id) \/ (IsSome(mod_id) /\ mod_id[1] < 0)
           THEN /\ NoEffect(nxt)
                /\ UNCHANGED exitCode
           ELSE \E ok1 \in Outcomes :
                  IF ~ok1
                  THEN /\ requests' = Append(requests,
                                             Req("GET", "module_items", mod_id[1], 0))
                       /\ failsLeft' = Spend(<<ok1>>)
                       /\ Abort
                       /\ UNCHANGED <<actions, rModules, nextId, loc>>
                  ELSE IF ItemsOf(rModules, mod_id[1]) # <<>>
                  THEN /\ requests' = Append(requests,
                                             Req("GET", "module_items", mod_id[1], 0))
                       /\ pc' = nxt[1]
                       /\ loc' = [loc EXCEPT !.i = nxt[2]]
                       /\ UNCHANGED <<actions, rModules, nextId, failsLeft, exitCode>>
                  ELSE \E ok2 \in Outcomes :
                       /\ requests' = requests
                              \o <<Req("GET", "module_items", mod_id[1], 0),
                                   Req("PUT", "module", mod_id[1], 0)>>
                       /\ failsLeft' = Spend(<<ok2>>)
                       /\ rModules' = IF ok2 THEN SetPublished(rModules, mod_id[1], FALSE)
                                      ELSE rModules
                       /\ actions' = Append(actions,
                              IF ok2
                              THEN Entry("unpublish", "module", 0, 0, mtg.date,
                                         Strip(mtg.title))
                              ELSE Entry("warn", "unpublish-module", mod_id[1], 0, 0, <<>>))
                       /\ pc' = nxt[1]
                       /\ loc' = [loc EXCEPT !.i = nxt[2]]
                       /\ UNCHANGED <<nextId, exitCode>>
    /\ UNCHANGED <<att, dry_log, board, conv, fm, apply, base_url, rAssignments, rPages, plan, due_map, rub>>

\* lines 952-965: the log is printed and main returns 0
Finish ==
    /\ pc = "finish"
    /\ pc' = "done"
    /\ exitCode' = Some(0)
    /\ UNCHANGED <<att, dry_log, board, conv, fm, apply, base_url, remoteVars, plan, due_map, actions, requests,
                   loc, rub>>

-----------------------------------------------------------------------------
(* Inputs of the schedule updater                                          *)

sIntro == <<"I","n","t","r","o">>
sLab == <<"L","a","b">>
sCh1 == <<"C","h"," ","1">>
sHttpA == <<"h","t","t","p",":","/","/","a">>
sRelX == <<".",".","/","x">>
sBase == <<"h","t","t","p",":","/","/","b","/">>
sQuiz1Due == <<"Q","u","i","z"," ","1"," ","D","u","e">>
sQuiz1Out == <<"Q","u","i","z"," ","1"," ","H","a","n","d","e","d"," ","O","u","t">>
sHW10Due == <<"H","W"," ","1","0"," ","D","u","e">>
sQuiz1 == <<"Q","u","i","z"," ","1">>
sHW10 == <<"H","W"," ","1","0">>
sActIntro == <<"A","c","t","i","v","i","t","y",":"," ","I","n","t","r","o">>
sSlugIntro == <<"i","n","t","r","o">>
sUrlC1 == <<"h","t","t","p",":","/","/","c","/","1">>
sUrlC2 == <<"h","t","t","p",":","/","/","c","/","2">>
sOld == <<"O","l","d">>

\* bounds of the explored inputs
MaxRows == 2
MaxFails == 1
MaxOldModules == 2
MaxOldItems == 1

\* course_start_date: 2025/08/25, class_meets_days: isM, isW
MainStart == <<2025, 8, 25>>
MainDays == {"M", "W"}

Row(slot, c) ==
    [week |-> Some(slot[1]), date |-> Some(slot[2]), title |-> c.title, link |-> c.link,
     activities |-> c.activities, readings |-> c.readings, deliverables |-> c.deliverables]

\* what a schedule row can carry
ContentQuizDue ==
    [title |-> sIntro, link |-> <<>>, activities |-> <<>>, readings |-> <<>>,
     deliverables |-> <<[dtitle |-> sQuiz1Due]>>]
ContentLab ==
    [title |-> sLab, link |-> sHttpA,
     activities |-> <<[title |-> sIntro, url |-> <<>>]>>,
     readings |-> <<[rtitle |-> sCh1, rlink |-> <<>>], [rtitle |-> sCh1, rlink |-> <<>>]>>,
     deliverables |-> <<[dtitle |-> sQuiz1Out]>>]
ContentMixed ==
    [title |-> sIntro, link |-> sRelX, activities |-> <<>>,
     readings |-> <<[rtitle |-> sCh1, rlink |-> sHttpA]>>,
     deliverables |-> <<[dtitle |-> sHW10Due], [dtitle |-> sQuiz1Out]>>]
ContentEmpty ==
    [title |-> sLab, link |-> <<>>, activities |-> <<>>, readings |-> <<>>,
     deliverables |-> <<>>]
\* a meeting whose own link is the address of the assignment it hands out
ContentQuizPage ==
    [title |-> sLab, link |-> sUrlC1, activities |-> <<>>, readings |-> <<>>,
     deliverables |-> <<[dtitle |-> sQuiz1Out]>>]

MainContents == {ContentQuizDue, ContentLab, ContentMixed, ContentEmpty, ContentQuizPage}

\* (week, ordinal) of a row
MainSlots == {<<0, 0>>, <<0, 1>>}

MainRows == {Row(slot, c) : slot \in MainSlots, c \in MainContents}

SeqsUpTo(S, n) == UNION {[1..k -> S] : k \in 0..n}

MainFrontMatters ==
    {[course_start_date |-> MainStart, class_meets_days |-> MainDays, schedule |-> sch] :
        sch \in SeqsUpTo(MainRows, MaxRows)}

\* an existing module with id m and k items
OldModule(m, k) ==
    [id |-> m, name |-> [date |-> None, title |-> sOld], position |-> m, published |-> TRUE,
     items |-> [j \in 1..k |->
                  [id |-> 10 * m + j, type |-> "SubHeader", content_id |-> 0,
                   ref |-> <<>>, title |-> sCh1]]]

\* n existing modules; the first has MaxOldItems items, each later one has one less
OldModules(n) ==
    [m \in 1..n |-> OldModule(m, IF MaxOldItems >= m - 1 THEN MaxOldItems - (m - 1) ELSE 0)]

\* the due instant of a Due deliverable of the first meeting, already set remotely
MainFirstDue == <<2025, 8, 26, 3, 59, 59>>

\* a course with the assignment "Quiz 1" and no due date
QuizOnly ==
    <<[id |-> 1, name |-> sQuiz1, due_at |-> None, html_url |-> sUrlC1,
       rubric_settings |-> None]>>

MainAssignmentLists ==
    { <<>>,
      QuizOnly,
      <<[id |-> 1, name |-> sQuiz1, due_at |-> MainFirstDue, html_url |-> <<>>,
         rubric_settings |-> None],
        [id |-> 2, name |-> sHW10, due_at |-> None, html_url |-> sUrlC2,
         rubric_settings |-> None]>> }

MainPages == <<[title |-> sActIntro, url |-> sSlugIntro]>>

\* the server's ids for what is created in the run lie above the existing ones
FirstFreeId == 10 * (MaxOldModules + 2)

LocInit ==
    [assignments |-> <<>>, existing |-> <<>>, items |-> <<>>, i |-> 1, j |-> 1,
     position |-> 1, date_to_module_id |-> <<>>, assign_by_base |-> <<>>,
     pages_by_title |-> <<>>, attached_assignments |-> {}, attached_links |-> {},
     attached_pages |-> {}, attached_subheaders |-> {}, attached_handouts |-> {}]

\* the state before main() reads anything
ProgInit ==
    /\ pc = "start"
    /\ plan = [meetings |-> <<>>, deliverables_due |-> <<>>, deliverables_handed_out |-> <<>>]
    /\ due_map = <<>>
    /\ actions = <<>>
    /\ requests = <<>>
    /\ loc = LocInit
    /\ exitCode = None

\* the locals of the rubric pass before it runs
RubIdle == [work |-> <<>>, k |-> 1, assignment |-> 0, meta |-> None, asmt_position |-> 1]

\* the converters before they run
ConvIdle == [pc |-> "idle"]
BoardIdle == [pc |-> "idle"]
AttIdle == [pc |-> "idle"]

Init ==
    /\ fm \in MainFrontMatters
    /\ apply \in BOOLEAN
    /\ base_url = <<>>
    /\ rModules \in {OldModules(n) : n \in 0..MaxOldModules}
    /\ rAssignments \in MainAssignmentLists
    /\ rPages = MainPages
    /\ nextId = FirstFreeId
    /\ failsLeft = MaxFails
    /\ ProgInit
    /\ rub = RubIdle
    /\ conv = ConvIdle
    /\ board = BoardIdle
    /\ att = AttIdle
    /\ dry_log = None

Next ==
    \/ ExtractPlan
    \/ BuildDueMap
    \/ DueListAssignments
    \/ DueStep
    \/ ListModules
    \/ ListModuleItems
    \/ DeleteItem
    \/ DeleteModule
    \/ CreateModule
    \/ ListAssignmentsForModules
    \/ ListPages
    \/ PopulateStep
    \/ HandoutStep
    \/ DueAttachStep
    \/ UnpublishStep
    \/ Finish

Spec == Init /\ [][Next]_vars

-----------------------------------------------------------------------------
(* Properties of the schedule updater                                      *)

Count(seq, Test(_)) == Len(SelectSeq(seq, Test))

IsMutating(r) == r.m \in {"PUT", "POST", "DELETE"}

\* main returned 0
Succeeded == pc = "done" /\ exitCode = Some(0)

\* no remote call has failed so far
NoFailure == failsLeft = MaxFails

\* C1: with apply false no PUT, POST or DELETE request is ever sent: only listing
\* GETs, and nothing is created on the server; the planned changes are log entries.
C1_DryRunGate ==
    ~apply =>
        /\ \A k \in DOMAIN requests :
              requests[k].m = "GET"
              /\ requests[k].res \in {"assignments", "modules", "module_items", "pages"}
        /\ nextId = FirstFreeId

\* a finished dry run that logged an update, a deletion, a creation and an attachment
C1_Witness ==
    /\ ~apply
    /\ Succeeded
    /\ \E k \in DOMAIN actions : actions[k].tag = "update"
    /\ \E k \in DOMAIN actions : actions[k].tag = "del-item" /\ actions[k].dry
    /\ \E k \in DOMAIN actions : actions[k].tag = "create-module"
    /\ \E k \in DOMAIN actions : actions[k].tag = "add" /\ actions[k].dry

\* the [warn] / [skip] / [update] entries of apply_due_dates, in order
DueLog == SelectSeq(actions, LAMBDA e : e.kind = "due" /\ e.tag \in {"warn", "skip", "update"})

\* the listed assignments whose normalized name equals or contains the key
Candidates(key) ==
    {a \in Range(loc.assignments) : Contains(AssignmentKey(a), key)}

DuePhaseOver ==
    \/ pc \in {"mod_list", "del_list_items", "del_items", "del_module", "create_loop",
               "lookup_assignments", "lookup_pages", "populate", "handouts", "dues",
               "unpublish", "finish"}
    \/ Succeeded

\* the syllabus of the end-to-end scenario: one meeting with "Quiz 1 Due"
Quiz1Scenario ==
    /\ fm.schedule = <<Row(<<0, 0>>, ContentQuizDue)>>
    /\ loc.assignments = QuizOnly

\* C2: every due-map entry gets exactly one of [warn] (no match), [skip] (due_at
\* already the computed instant) and [update]; an assignment is PUT only for an
\* [update] and only with apply; "Quiz 1 Due" against a remote "Quiz 1" without a
\* due date gives one [update] and no [warn].
C2_DueOutcomes ==
    /\ Len(DueLog) <= Len(due_map)
    /\ pc = "due_loop" => Len(DueLog) = loc.i - 1
    /\ DuePhaseOver => Len(DueLog) = Len(due_map)
    /\ \A k \in DOMAIN DueLog :
          LET e == DueLog[k]
              key == due_map[k].key
              iso == due_map[k].iso
          IN  /\ e.txt = key
              /\ e.tag = "warn" <=> Candidates(key) = {}
              /\ e.tag # "warn" =>
                    \E a \in Candidates(key) :
                        /\ a.id = e.num
                        /\ e.tag = "skip" <=> a.due_at = iso
    /\ Count(requests, LAMBDA r : r.res = "assignment" /\ IsMutating(r))
          = IF apply THEN Count(DueLog, LAMBDA e : e.tag = "update") ELSE 0
    /\ \A k \in DOMAIN requests :
          (requests[k].res = "assignment" /\ IsMutating(requests[k])) =>
              /\ requests[k].m = "PUT"
              /\ \E j \in DOMAIN DueLog :
                    DueLog[j].tag = "update" /\ DueLog[j].num = requests[k].id
    /\ (Quiz1Scenario /\ DuePhaseOver) =>
          /\ Count(DueLog, LAMBDA e : e.tag = "update") = 1
          /\ Count(DueLog, LAMBDA e : e.tag = "warn") = 0
    /\ (Quiz1Scenario /\ Succeeded /\ NoFailure) =>
          /\ Count(actions, LAMBDA e : e.tag = "update") = 1
          /\ Count(actions, LAMBDA e : e.tag = "warn") = 0
          /\ apply => rAssignments[1].due_at = MainFirstDue

\* the scenario has run to its end in apply mode and the due date is set
C2_Witness ==
    /\ Quiz1Scenario
    /\ apply
    /\ Succeeded
    /\ NoFailure
    /\ DueLog = <<Entry("update", "due", 0, 1, 0, _norm(sQuiz1))>>
    /\ rAssignments[1].due_at = MainFirstDue

\* position in `requests` of the first request equal to r, 0 when there is none
FirstIndex(r) ==
    IF \E k \in DOMAIN requests : requests[k] = r
    THEN MinOf({k \in DOMAIN requests : requests[k] = r})
    ELSE 0

\* every item of every module listed at the start has had its delete call, and
\* after them the module its own, all before position k of `requests`
AllDeletedBefore(k) ==
    \A i \in DOMAIN loc.existing :
        LET mod == loc.existing[i]
            dm == FirstIndex(Req("DELETE", "module", mod.id, 0))
        IN  /\ 0 < dm /\ dm < k
            /\ \A n \in DOMAIN mod.items :
                  LET di == FirstIndex(Req("DELETE", "module_item", mod.id, mod.items[n].id))
                  IN  0 < di /\ di < dm

DeletionOver ==
    \/ pc \in {"create_loop", "lookup_assignments", "lookup_pages", "populate", "handouts",
               "dues", "unpublish", "finish"}
    \/ Succeeded

\* C8: in apply mode a delete call is issued for every item of every module that
\* existed at the start and for every such module, all of them before the first
\* create-module call.
C8_DeleteBeforeCreate ==
    apply =>
        /\ \A k \in DOMAIN requests :
              requests[k] = Req("POST", "modules", 0, 0) => AllDeletedBefore(k)
        /\ DeletionOver => AllDeletedBefore(Len(requests) + 1)

\* two modules existed, one with an item, and a module has been created after them
C8_Witness ==
    /\ apply
    /\ Len(loc.existing) = MaxOldModules
    /\ \E i \in DOMAIN loc.existing : loc.existing[i].items # <<>>
    /\ \E k \in DOMAIN requests : requests[k] = Req("POST", "modules", 0, 0)

\* the modules the run has created, in the server's order
NewModules == SelectSeq(rModules, LAMBDA m : IsSome(m.name.date))

MeetingDates == {plan.meetings[i].date : i \in DOMAIN plan.meetings}

CleanApplyRun == apply /\ Succeeded /\ NoFailure

DateOfDeliverable(d) ==
    CHOOSE x \in {plan.meetings[i].date : i \in {j \in DOMAIN plan.meetings :
                      /\ plan.meetings[j].week = d.week
                      /\ plan.meetings[j].ordinal_in_week = d.ordinal_in_week}} : TRUE

\* the date of the module a log entry or an item refers to; a dry run names the
\* module by the negated position of its [create-module] entry
ModuleDate(mod_id) ==
    IF mod_id < 0
    THEN LET k == CHOOSE k \in DOMAIN actions :
                      actions[k].tag = "create-module" /\ actions[k].num = -mod_id
         IN  actions[k].date
    ELSE rModules[IndexOfId(rModules, mod_id)].name.date[1]

HandoutTitle(d) == _strip_markers(d.title) \o sSpHandedOut

IsHandoutItem(it) == it.type = "ExternalUrl" /\ EndsWith(it.title, sSpHandedOut)

\* the assignment the rebuild pass looks up for a deliverable, if any
AssignmentFor(d) == Get(loc.assign_by_base, DueKey(d))

\* C10: a "Handed Out" deliverable is linked in the module of its own meeting
\* date, and the item of a "Due" deliverable is attached to the module of its own
\* meeting date (the student-facing due day), never to a module of another date.
C10_OwnMeetingDate ==
    /\ \A k \in DOMAIN actions :
          LET e == actions[k]
          IN  /\ (e.tag = "add" /\ e.kind = "assignment") =>
                    \E i \in DOMAIN plan.deliverables_due :
                        LET d == plan.deliverables_due[i]
                        IN  /\ AssignmentFor(d) # None
                            /\ AssignmentFor(d)[1].id = e.num
                            /\ ModuleDate(e.mod) = DateOfDeliverable(d)
              /\ (e.tag = "add" /\ e.kind = "handout") =>
                    \E i \in DOMAIN plan.deliverables_handed_out :
                        LET d == plan.deliverables_handed_out[i]
                        IN  /\ e.txt = HandoutTitle(d)
                            /\ e.date = DateOfDeliverable(d)
    /\ \A m \in DOMAIN NewModules :
          \A n \in DOMAIN NewModules[m].items :
              LET it == NewModules[m].items[n]
                  date == NewModules[m].name.date[1]
              IN  /\ it.type = "Assignment" =>
                        \E i \in DOMAIN plan.deliverables_due :
                            LET d == plan.deliverables_due[i]
                            IN  /\ AssignmentFor(d) # None
                                /\ AssignmentFor(d)[1].id = it.content_id
                                /\ DateOfDeliverable(d) = date
                  /\ IsHandoutItem(it) =>
                        \E i \in DOMAIN plan.deliverables_handed_out :
                            LET d == plan.deliverables_handed_out[i]
                            IN  /\ it.title = HandoutTitle(d)
                                /\ DateOfDeliverable(d) = date
    /\ CleanApplyRun =>
          /\ \A i \in DOMAIN plan.deliverables_due :
                LET d == plan.deliverables_due[i]
                IN  AssignmentFor(d) # None =>
                        \E m \in DOMAIN NewModules :
                            /\ NewModules[m].name.date = Some(DateOfDeliverable(d))
                            /\ \E n \in DOMAIN NewModules[m].items :
                                  /\ NewModules[m].items[n].type = "Assignment"
                                  /\ NewModules[m].items[n].content_id
                                        = AssignmentFor(d)[1].id
          /\ \A i \in DOMAIN plan.deliverables_handed_out :
                LET d == plan.deliverables_handed_out[i]
                IN  (AssignmentFor(d) # None /\ _assignment_url(AssignmentFor(d)[1]) # <<>>) =>
                        \E m \in DOMAIN NewModules :
                            /\ NewModules[m].name.date = Some(DateOfDeliverable(d))
                            /\ \E n \in DOMAIN NewModules[m].items :
                                  /\ IsHandoutItem(NewModules[m].items[n])
                                  /\ NewModules[m].items[n].title = HandoutTitle(d)

\* a clean apply run over two meeting days in which the first day's module got the
\* item of its Due deliverable and the second day's module the handout link
C10_Witness ==
    /\ CleanApplyRun
    /\ Cardinality(MeetingDates) = 2
    /\ \E m \in DOMAIN NewModules :
          /\ NewModules[m].name.date = Some(MinOf(MeetingDates))
          /\ \E n \in DOMAIN NewModules[m].items : NewModules[m].items[n].type = "Assignment"
    /\ \E m \in DOMAIN NewModules :
          /\ NewModules[m].name.date = Some(MaxOf(MeetingDates))
          /\ \E n \in DOMAIN NewModules[m].items : IsHandoutItem(NewModules[m].items[n])

\* ---- C11: the de-dup guards ----

AttachKinds == {"page", "link", "note", "assignment", "handout"}

IsCreateItem(r) == r.m = "POST" /\ r.res = "module_items"

IsAttachResult(e) == e.kind \in AttachKinds /\ e.tag \in {"add", "error"} /\ ~e.dry

IsAttachSkip(e) == e.kind \in AttachKinds /\ e.tag = "skip"

\* the resource a module item stands for: the slug of a page, the address of an
\* external link, the id of an assignment, the title of a note
ResourceOf(it) ==
    CASE it.type = "Page" -> <<"Page", it.ref>>
      [] it.type = "ExternalUrl" -> <<"ExternalUrl", it.ref>>
      [] it.type = "Assignment" -> <<"Assignment", it.content_id>>
      [] OTHER -> <<"SubHeader", it.title>>

\* the guard set that admitted an item, and the key it was admitted under
GuardOf(it) ==
    CASE it.type = "Page" -> "attached_pages"
      [] it.type = "ExternalUrl" ->
             IF IsHandoutItem(it) THEN "attached_handouts" ELSE "attached_links"
      [] it.type = "Assignment" -> "attached_assignments"
      [] OTHER -> "attached_subheaders"

GuardKey(m, it) ==
    <<m.id, IF IsHandoutItem(it) THEN Some(ResourceOf(it)[2]) ELSE ResourceOf(it)[2]>>

Guards == {"attached_pages", "attached_links", "attached_assignments",
           "attached_subheaders", "attached_handouts"}

\* C11 as stated: in an apply run no module of the run holds two items for the
\* same resource (page slug, external URL, assignment id or note title).
C11_OneItemPerResource ==
    apply =>
        \A m \in DOMAIN NewModules :
            \A i, j \in DOMAIN NewModules[m].items :
                i # j => ResourceOf(NewModules[m].items[i]) # ResourceOf(NewModules[m].items[j])

\* C11: in an apply run every item of a module of the run was admitted by the guard
\* set of its kind (pages, links, notes, assignments, handout links) under its
\* (module, resource) key, no module holds two items admitted by the same guard for
\* the same resource, and a [skip] of an attach sends no create-item request: the
\* create-item requests are exactly the [add] and [error] entries.  A handout link
\* is guarded apart from the other links.
C11_OneItemPerGuardedResource ==
    apply =>
        /\ \A m \in DOMAIN NewModules :
              LET its == NewModules[m].items
              IN  /\ \A i \in DOMAIN its :
                        GuardKey(NewModules[m], its[i]) \in loc[GuardOf(its[i])]
                  /\ \A i, j \in DOMAIN its :
                        (i # j /\ GuardOf(its[i]) = GuardOf(its[j]))
                            => ResourceOf(its[i]) # ResourceOf(its[j])
        /\ \A g \in Guards : \A key \in loc[g] :
              \E m \in DOMAIN NewModules :
                  /\ NewModules[m].id = key[1]
                  /\ \E i \in DOMAIN NewModules[m].items :
                        /\ GuardOf(NewModules[m].items[i]) = g
                        /\ GuardKey(NewModules[m], NewModules[m].items[i]) = key
        /\ Count(requests, IsCreateItem) = Count(actions, IsAttachResult)

\* an apply run that attached a note and skipped its second occurrence, and that
\* attached one address to one module as a link and as a handout link
C11_Witness ==
    /\ apply
    /\ Succeeded
    /\ \E k \in DOMAIN actions : IsAttachSkip(actions[k]) /\ actions[k].kind = "note"
    /\ \E m \in DOMAIN NewModules :
          \E i, j \in DOMAIN NewModules[m].items :
              /\ i # j
              /\ ~IsHandoutItem(NewModules[m].items[i])
              /\ IsHandoutItem(NewModules[m].items[j])
              /\ ResourceOf(NewModules[m].items[i]) = ResourceOf(NewModules[m].items[j])

\* ---- C12: the unpublish pass ----

\* the PUT modules/<id> requests sent for a module: the first one is the
\* re-publish of step 2, every later one an unpublish of step 8
PutsForModule(id) ==
    Count(requests, LAMBDA r : r.m = "PUT" /\ r.res = "module" /\ r.id = id)

\* C12: at the end of an apply run in which every remote call succeeds, every
\* module of the run that holds no item has been sent an unpublish request and
\* is not published.
C12_EmptyModulesUnpublished ==
    CleanApplyRun =>
        \A m \in DOMAIN NewModules :
            NewModules[m].items = <<>> =>
                /\ PutsForModule(NewModules[m].id) >= 2
                /\ ~NewModules[m].published

\* ---- C13: remote-call failures ----

EntriesOf(kinds, tags) ==
    Count(actions, LAMBDA e : e.kind \in kinds /\ e.tag \in tags)

\* the log entries that report a failed PUT, POST or DELETE
IsFailureEntry(e) ==
    \/ e.tag = "error"
    \/ e.tag = "warn" /\ e.kind \in {"publish-module", "publish-item", "unpublish-module"}

\* the helper calls of step 5 that have a module to work on
PopulateOpsWithModule ==
    Count(PopulateOps(plan),
          LAMBDA op : plan.meetings[op.mi].date \in DOMAIN loc.date_to_module_id)

\* every element of every loop of apply_due_dates and rebuild_all_modules has
\* been given its log entry
BatchProcessed ==
    /\ Len(DueLog) = Len(due_map)
    /\ EntriesOf({"module"}, {"del-module"}) + EntriesOf({"del-module"}, {"error"})
           = Len(loc.existing)
    /\ EntriesOf({"module"}, {"create-module"}) + EntriesOf({"create-module"}, {"error"})
           = Len(plan.meetings)
    /\ EntriesOf({"page", "link", "note", "no-page-no-url"}, {"add", "error", "skip"})
           = PopulateOpsWithModule
    /\ EntriesOf({"handout"}, {"add", "error", "skip"})
         + EntriesOf({"no-handout-module", "no-handout-assignment", "no-html-url"}, {"warn"})
           = Len(plan.deliverables_handed_out)
    /\ EntriesOf({"assignment"}, {"add", "error", "skip"})
         + EntriesOf({"no-meeting-on-or-after", "no-module-for-day",
                      "no-assignment-object"}, {"warn"})
           = Len(plan.deliverables_due)

\* C13 as stated: no failure of a remote call, listings included, keeps the run
\* from processing every deliverable, module and item and returning normally.
C13_EveryFailureSkipsOneItem ==
    pc = "done" => (exitCode = Some(0) /\ BatchProcessed)

\* C13: a failed PUT, POST or DELETE is logged as [error] or [warn] and the run
\* goes on: it returns 0 with a log entry for every deliverable, module and item.
\* A failed listing GET (raise_for_status) ends the run at once with exit code 1;
\* nothing else makes the run return 1.
C13_MutatingFailuresSkipOneItem ==
    pc = "done" =>
        /\ exitCode \in {Some(0), Some(1)}
        /\ exitCode = Some(0) =>
              /\ BatchProcessed
              /\ ~NoFailure => Count(actions, IsFailureEntry) = MaxFails - failsLeft
        /\ exitCode = Some(1) =>
              /\ ~NoFailure
              /\ requests # <<>>
              /\ requests[Len(requests)].m = "GET"

\* a run whose create-module call failed and that still attached an item to a
\* later module and returned 0
C13_Witness ==
    /\ apply
    /\ Succeeded
    /\ ~NoFailure
    /\ \E j, k \in DOMAIN actions :
          /\ j < k
          /\ actions[j].tag = "error" /\ actions[j].kind = "create-module"
          /\ actions[k].tag = "add"

-----------------------------------------------------------------------------
(* The plan and the due map over the calendar: main() up to build_due_map  *)

MaxPlanRows == 2
MaxWeek == 1
MaxOrdinal == 7

\* a Monday, a Wednesday, and the Sunday and the Wednesday of the weeks before the
\* weekends on which daylight-saving time begins (2025-03-09) and ends (2025-11-02)
PlanStarts == {<<2025, 8, 25>>, <<2025, 8, 27>>, <<2025, 3, 2>>, <<2025, 10, 29>>}

PlanDaySets == {{}, {"M", "W", "F"}, {"M", "T", "W", "R", "F", "S", "U"}}

\* week and ordinal as the front matter gives them: missing, negative, in or out of range
PlanWeeks == {None} \cup {Some(w) : w \in 0..MaxWeek}
PlanOrdinals == {None} \cup {Some(o) : o \in -1..MaxOrdinal}

PlanRows ==
    {[Row(<<0, 0>>, c) EXCEPT !.week = w, !.date = o] :
        w \in PlanWeeks, o \in PlanOrdinals, c \in {ContentQuizDue, ContentEmpty}}

PlanFrontMatters ==
    {[course_start_date |-> st, class_meets_days |-> ds, schedule |-> sch] :
        st \in PlanStarts, ds \in PlanDaySets, sch \in SeqsUpTo(PlanRows, MaxPlanRows)}

InitPlan ==
    /\ fm \in PlanFrontMatters
    /\ apply = FALSE
    /\ base_url = <<>>
    /\ rModules = <<>>
    /\ rAssignments = <<>>
    /\ rPages = <<>>
    /\ nextId = FirstFreeId
    /\ failsLeft = 0
    /\ ProgInit
    /\ rub = RubIdle
    /\ conv = ConvIdle
    /\ board = BoardIdle
    /\ att = AttIdle
    /\ dry_log = None

NextPlan ==
    \/ ExtractPlan
    \/ BuildDueMap

SpecPlan == InitPlan /\ [][NextPlan]_vars

-----------------------------------------------------------------------------
(* Properties of the plan and the due map                                  *)

DueMapBuilt == pc \notin {"start", "build_due_map"}

DueDeliverables == {plan.deliverables_due[i] : i \in DOMAIN plan.deliverables_due}

\* the instant of the statement: the day after the deliverable's meeting, at
\* 03:59:59Z when that day is in daylight-saving time and at 04:59:59Z otherwise
NextDayInstant(d) ==
    LET eff == DateOfDeliverable(d) + 1
    IN  Civil(eff) \o <<(IF _local_is_dst(eff) THEN 3 ELSE 4), 59, 59>>

\* the last Due deliverable of the plan with the given key
LastDueWithKey(key) ==
    plan.deliverables_due[
        MaxOf({i \in DOMAIN plan.deliverables_due : DueKey(plan.deliverables_due[i]) = key})]

\* C3 as stated: every Due deliverable's normalized name is mapped to the instant
\* of the day after its own meeting date.
C3_EveryDueDeliverable ==
    DueMapBuilt =>
        \A d \in DueDeliverables :
            /\ DictHas(due_map, DueKey(d))
            /\ DictGet(due_map, DueKey(d)) = NextDayInstant(d)

\* C3: the due map has exactly one entry per normalized name of a Due deliverable,
\* and it holds the instant of the last Due deliverable with that name in the
\* plan's order: (meeting date + 1 day) at 03:59:59Z if that next day is in
\* daylight-saving time and at 04:59:59Z otherwise; no other hour or day offset.
C3_LastDueDeliverable ==
    DueMapBuilt =>
        /\ {due_map[k].key : k \in DOMAIN due_map} = {DueKey(d) : d \in DueDeliverables}
        /\ \A j, k \in DOMAIN due_map : due_map[j].key = due_map[k].key => j = k
        /\ \A k \in DOMAIN due_map :
              due_map[k].iso = NextDayInstant(LastDueWithKey(due_map[k].key))

\* two Due deliverables of the same name on different days, the later one the day
\* before daylight-saving time begins: the map holds the later one's instant
C3_Witness ==
    /\ DueMapBuilt
    /\ Len(plan.deliverables_due) = 2
    /\ DateOfDeliverable(plan.deliverables_due[1]) < DateOfDeliverable(plan.deliverables_due[2])
    /\ due_map = <<[key |-> _norm(sQuiz1), iso |-> <<2025, 3, 9, 3, 59, 59>>]>>

\* C4 as stated: the hour follows the meeting date: a meeting date in
\* daylight-saving time gives 03:59:59Z on the following day and a meeting date in
\* standard time 04:59:59Z, also right before and on a transition.
C4_HourOfMeetingDate ==
    DueMapBuilt =>
        \A k \in DOMAIN due_map :
            LET meeting_date == DateOfDeliverable(LastDueWithKey(due_map[k].key))
            IN  due_map[k].iso
                    = Civil(meeting_date + 1)
                        \o <<(IF _local_is_dst(meeting_date) THEN 3 ELSE 4), 59, 59>>

\* the Monday on or before a day, from the calendar alone
MondayOnOrBefore(day) == CHOOSE x \in (day - 6)..day : Weekday(x) = 0

ActiveOffsets == {DAY_TO_WEEKDAY(c) : c \in fm.class_meets_days}

\* the weekday offset of the o-th active day, counting Monday .. Sunday from 0
OffsetOfOrdinal(o) ==
    CHOOSE w \in ActiveOffsets : Cardinality({v \in ActiveOffsets : v < w}) = o

MeetingDateOf(w, o) ==
    MondayOnOrBefore(_parse_date_yyyy_slash_mm_slash_dd(fm.course_start_date))
        + 7 * w + OffsetOfOrdinal(o)

\* C5: the date of a meeting is the Monday on or before the course start date plus
\* 7 * week days plus the weekday offset of the ordinal-th active day, the active
\* days counted Monday to Sunday; with start 2025-08-25 and days M, W, F week 0
\* ordinal 2 is 2025-08-29 and week 1 ordinal 0 is 2025-09-01.
C5_MeetingDates ==
    /\ \A i \in DOMAIN plan.meetings :
          LET m == plan.meetings[i]
          IN  /\ m.ordinal_in_week \in 0..(Cardinality(ActiveOffsets) - 1)
              /\ m.date = MeetingDateOf(m.week, m.ordinal_in_week)
              /\ (fm.course_start_date = <<2025, 8, 25>>
                  /\ fm.class_meets_days = {"M", "W", "F"}) =>
                    /\ (m.week = 0 /\ m.ordinal_in_week = 2) => Civil(m.date) = <<2025, 8, 29>>
                    /\ (m.week = 1 /\ m.ordinal_in_week = 0) => Civil(m.date) = <<2025, 9, 1>>
    /\ pc \in {"build_due_map", "due_list"} =>
          \A k \in DOMAIN fm.schedule :
              LET r == fm.schedule[k]
              IN  (/\ IsSome(r.week)
                   /\ IsSome(r.date)
                   /\ r.date[1] \in 0..(Cardinality(ActiveOffsets) - 1)) =>
                      \E i \in DOMAIN plan.meetings :
                          /\ plan.meetings[i].week = r.week[1]
                          /\ plan.meetings[i].ordinal_in_week = r.date[1]
                          /\ plan.meetings[i].date = MeetingDateOf(r.week[1], r.date[1])

\* the two meetings of the example have been computed
C5_Witness ==
    /\ fm.course_start_date = <<2025, 8, 25>>
    /\ fm.class_meets_days = {"M", "W", "F"}
    /\ \E i \in DOMAIN plan.meetings :
          /\ plan.meetings[i].week = 0
          /\ plan.meetings[i].ordinal_in_week = 2
          /\ Civil(plan.meetings[i].date) = <<2025, 8, 29>>
    /\ \E i \in DOMAIN plan.meetings :
          /\ plan.meetings[i].week = 1
          /\ plan.meetings[i].ordinal_in_week = 0
          /\ Civil(plan.meetings[i].date) = <<2025, 9, 1>>

\* ---- C15: rows with an ordinal outside the active days ----

PlanExtracted == pc # "start" /\ exitCode = None

\* a row whose ordinal is negative or not smaller than the number of active days
OutOfRangeRow(r) ==
    /\ IsSome(r.date)
    /\ (r.date[1] < 0 \/ r.date[1] >= Len(_active_days_from(fm)))

\* the front matter without its out-of-range rows
WithoutOutOfRangeRows ==
    [fm EXCEPT !.schedule = SelectSeq(fm.schedule, LAMBDA r : ~OutOfRangeRow(r))]

\* C15: a row whose ordinal is negative or not smaller than the number of active
\* meeting days contributes no meeting and no deliverable and raises nothing:
\* the plan is the plan of the schedule without such rows, it has one meeting
\* per row with a week and an in-range ordinal, and the run is not aborted.
C15_OutOfRangeRowsSkipped ==
    /\ exitCode = Some(1) => _active_days_from(fm) = <<>>
    /\ PlanExtracted =>
          /\ plan = _extract_plan(WithoutOutOfRangeRows)
          /\ Len(plan.meetings)
                = Count(fm.schedule,
                        LAMBDA r : IsSome(r.week) /\ IsSome(r.date) /\ ~OutOfRangeRow(r))
          /\ \A i \in DOMAIN plan.meetings :
                /\ plan.meetings[i].ordinal_in_week >= 0
                /\ plan.meetings[i].ordinal_in_week < Len(_active_days_from(fm))
          /\ \A i \in DOMAIN plan.deliverables_due :
                /\ plan.deliverables_due[i].ordinal_in_week >= 0
                /\ plan.deliverables_due[i].ordinal_in_week < Len(_active_days_from(fm))

\* a schedule with a row of ordinal -1 and a row whose ordinal is the number of
\* active days, both with a Due deliverable, and nothing else: an empty plan
C15_Witness ==
    /\ PlanExtracted
    /\ Len(fm.schedule) = 2
    /\ fm.schedule[1].date = Some(-1)
    /\ fm.schedule[2].date = Some(Len(_active_days_from(fm)))
    /\ \A i \in DOMAIN fm.schedule :
          IsSome(fm.schedule[i].week) /\ fm.schedule[i].deliverables # <<>>
    /\ plan.meetings = <<>>
    /\ plan.deliverables_due = <<>>

-----------------------------------------------------------------------------
(* ursinus_canvas_update_rubrics.py: small helpers                         *)

sSpDue == <<" ","D","u","e">>
sSpHandedOutLower == <<" ","h","a","n","d","e","d"," ","o","u","t">>
sQuizColon == <<"q","u","i","z",":">>

\* s[:-len(suffix)] if (suffix and s.endswith(suffix)) else s
rchop(s, suffix) ==
    IF suffix # <<>> /\ EndsWith(s, suffix) THEN DropLast(s, Len(suffix)) ELSE s

\* the hour of the UTC cut-off suffixes "T035959Z" and "T045959Z"
DUE_TIME_DST == 3
DUE_TIME_ST == 4
DUE_DATE_OFFSET == 1

\* bool(LOCALTIME.localize(dt).dst()) for dt the midnight that begins day d: the
\* day on which daylight time begins is still standard time at 00:00, the day on
\* which it ends is still daylight time at 00:00
LocalizedMidnightIsDst(d) ==
    LET y == Civil(d)[1]
    IN  d > DstStart(y) /\ d <= DstEnd(y)

get_local_time_suffix(d) == IF LocalizedMidnightIsDst(d) THEN DUE_TIME_DST ELSE DUE_TIME_ST

RECURSIVE getDayNumFrom(_, _, _)
\* the loop of getDayNum from position i of [M, T, W, R, F, S, U] with idx left
getDayNumFrom(idx, i, days) ==
    IF i > Len(DAY_ORDER) THEN 0
    ELSE IF DAY_ORDER[i] \in days
    THEN IF idx = 0 THEN i - 1 ELSE getDayNumFrom(idx - 1, i + 1, days)
    ELSE getDayNumFrom(idx, i + 1, days)

getDayNum(dayidx, days) == getDayNumFrom(dayidx, 1, days)

\* parseDate(startdate) + weeknum weeks + getDayNum(dayidx) days
getCourseDate(startdate, weeknum, dayidx, days) ==
    _parse_date_yyyy_slash_mm_slash_dd(startdate) + 7 * weeknum + getDayNum(dayidx, days)

\* description = rchop(dtitle.strip(), " Due")
DescriptionOf(dtitle) == rchop(Strip(dtitle), sSpDue)

\* the deliverables the pass leaves alone: ' handed out' or 'quiz:' in the description
IsSkipped(description) ==
    \/ Contains(Lower(description), sSpHandedOutLower)
    \/ Contains(Lower(description), sQuizColon)

NameMatches_Normalized(name, description) == _norm(name) = _norm(description)

\* ensure_assignment: a.name.strip() == description.strip()
NameMatches(name, description) == Strip(name) = Strip(description)

\* the first listed assignment with the name, as an optional value
FindByName(assignments, description) ==
    LET hits == {i \in DOMAIN assignments : NameMatches(assignments[i].name, description)}
    IN  IF hits = {} THEN None ELSE Some(assignments[MinOf(hits)])

\* the rubric definition files on disk
sOkMd == <<"o","k",".","m","d">>
sBadMd == <<"b","a","d",".","m","d">>
sGoneMd == <<"g","o","n","e",".","m","d">>

\* what build_rubric_payload_exact meets at a path: a rubric definition, one whose
\* criteria lack a key (KeyError), or no file
RubricFileKind(path) ==
    CASE path = sOkMd -> "ok"
      [] path = sBadMd -> "malformed"
      [] OTHER -> "absent"

\* the deliverables of one schedule row, each with the row's class date
WorkOfRow(f, r) ==
    [n \in DOMAIN r.deliverables |->
        [class_dt |-> getCourseDate(f.course_start_date, r.week[1], r.date[1],
                                    f.class_meets_days),
         dtitle |-> r.deliverables[n].dtitle,
         rubricpath |-> r.deliverables[n].rubricpath]]

RECURSIVE WorkFrom(_, _)
WorkFrom(f, i) ==
    IF i > Len(f.schedule) THEN <<>>
    ELSE WorkOfRow(f, f.schedule[i]) \o WorkFrom(f, i + 1)

\* the iterations of the two nested loops of process_markdown_assignments_only
RubricWork(f) == WorkFrom(f, 1)

-----------------------------------------------------------------------------
(* ursinus_canvas_update_rubrics.py: process_markdown_assignments_only     *)

sUrlNew == <<"h","t","t","p",":","/","/","c","/","n">>

\* control after one deliverable: the next one, or "Done." and a normal exit
NextDeliverable(r) ==
    IF r.k < Len(r.work)
    THEN /\ rub' = [r EXCEPT !.k = r.k + 1]
         /\ pc' = "rub_deliverable"
         /\ UNCHANGED exitCode
    ELSE /\ rub' = r
         /\ pc' = "done"
         /\ exitCode' = Some(0)

\* the front matter is read and the loops over schedule and deliverables begin
StartRubricPass ==
    /\ pc = "rub_start"
    /\ LET work == RubricWork(fm)
       IN  /\ rub' = [rub EXCEPT !.work = work, !.k = 1]
           /\ IF work = <<>>
              THEN /\ pc' = "done"
                   /\ exitCode' = Some(0)
              ELSE /\ pc' = "rub_deliverable"
                   /\ UNCHANGED exitCode
    /\ UNCHANGED <<att, dry_log, board, conv, fm, apply, base_url, remoteVars, plan, due_map, actions, requests, loc>>

\* one deliverable up to the call of the rubric replacement: the skip tests,
\* ensure_assignment (find by name or create) and the rubricpath tests
EnsureAssignment ==
    /\ pc = "rub_deliverable"
    /\ LET w == rub.work[rub.k]
           description == DescriptionOf(w.dtitle)
           found == FindByName(rAssignments, description)
           listReq == Req("GET", "assignments", 0, 0)
           postReq == Req("POST", "assignments", 0, 0)
           due_day == w.class_dt + DUE_DATE_OFFSET
           created == [id |-> nextId, name |-> description,
                       due_at |-> IsoZ(due_day, get_local_time_suffix(w.class_dt)),
                       html_url |-> sUrlNew, rubric_settings |-> None]
           creating == Entry("creating", "assignment", 0, 0, due_day, description)
           Rubric(a, log) ==
               LET r == [rub EXCEPT !.assignment = a.id, !.asmt_position = @ + 1]
               IN  IF w.rubricpath # <<>> /\ RubricFileKind(w.rubricpath) # "absent"
                   THEN /\ actions' = log
                        /\ rub' = r
                        /\ pc' = "rub_meta"
                        /\ UNCHANGED exitCode
                   ELSE /\ actions' =
                              IF w.rubricpath # <<>>
                              THEN Append(log, Entry("warning", "rubricpath-not-found", 0,
                                                     a.id, 0, description))
                              ELSE log
                        /\ NextDeliverable(r)
       IN  IF IsSkipped(description)
           THEN /\ NextDeliverable(rub)
                /\ UNCHANGED <<requests, rAssignments, nextId, failsLeft, actions>>
           ELSE \E ok1 \in Outcomes :
                  IF ~ok1
                  THEN /\ requests' = Append(requests, listReq)
                       /\ failsLeft' = Spend(<<ok1>>)
                       /\ Abort
                       /\ UNCHANGED <<rAssignments, nextId, actions, rub>>
                  ELSE IF IsSome(found)
                  THEN /\ requests' = Append(requests, listReq)
                       /\ Rubric(found[1],
                                 Append(actions, Entry("found", "assignment", 0, found[1].id,
                                                       0, found[1].name)))
                       /\ UNCHANGED <<rAssignments, nextId, failsLeft>>
                  ELSE \E ok2 \in Outcomes :
                       /\ requests' = requests \o <<listReq, postReq>>
                       /\ failsLeft' = Spend(<<ok2>>)
                       /\ IF ok2
                          THEN /\ rAssignments' = Append(rAssignments, created)
                               /\ nextId' = nextId + 1
                               /\ Rubric(created, Append(actions, creating))
                          ELSE /\ actions' = Append(actions, creating)
                               /\ Abort
                               /\ UNCHANGED <<rAssignments, nextId, rub>>
    /\ UNCHANGED <<att, dry_log, board, conv, fm, apply, base_url, rModules, rPages, plan, due_map, loc>>

-----------------------------------------------------------------------------
(* replace_assignment_rubric_delete_then_recreate                          *)

NextReplaceStep_SkipDeletes(step) == "rub_create"

\* the order of the steps 1) to 5) of the function
NextReplaceStep(step) ==
    CASE step = "rub_meta" -> "rub_del_assoc"
      [] step = "rub_del_assoc" -> "rub_del_rubric"
      [] OTHER -> "rub_create"

\* the server's handling of DELETE rubric_associations/<id>
DetachAssociation(assignments, assoc_id) ==
    [i \in DOMAIN assignments |->
        IF /\ IsSome(assignments[i].rubric_settings)
           /\ assignments[i].rubric_settings[1].rubric_association_id = assoc_id
        THEN [assignments[i] EXCEPT !.rubric_settings = None]
        ELSE assignments[i]]

\* the server's handling of DELETE rubrics/<id>: its associations go with it
DetachRubric(assignments, rubric_id) ==
    [i \in DOMAIN assignments |->
        IF /\ IsSome(assignments[i].rubric_settings)
           /\ assignments[i].rubric_settings[1].id = rubric_id
        THEN [assignments[i] EXCEPT !.rubric_settings = None]
        ELSE assignments[i]]

\* the server's handling of POST rubrics with an association to the assignment
AttachRubric(assignments, id, rubric_id, assoc_id) ==
    [i \in DOMAIN assignments |->
        IF assignments[i].id = id
        THEN [assignments[i] EXCEPT !.rubric_settings =
                 Some([id |-> rubric_id, rubric_association_id |-> assoc_id])]
        ELSE assignments[i]]

\* 1) meta = get_assignment_rubric_meta(...): both ids are None when the GET fails
GetAssignmentRubricMeta ==
    /\ pc = "rub_meta"
    /\ requests' = Append(requests, Req("GET", "assignment", rub.assignment, 0))
    /\ \E ok \in Outcomes :
        /\ failsLeft' = Spend(<<ok>>)
        /\ rub' = [rub EXCEPT !.meta =
                      IF ok
                      THEN rAssignments[IndexOfId(rAssignments, rub.assignment)].rubric_settings
                      ELSE None]
    /\ pc' = NextReplaceStep("rub_meta")
    /\ UNCHANGED <<att, dry_log, board, conv, fm, apply, base_url, rModules, rAssignments, rPages, nextId,
                   plan, due_map, actions, loc, exitCode>>

\* 2) if assoc_id: delete_rubric_association(...): a failure is caught and printed
DeleteRubricAssociation ==
    /\ pc = "rub_del_assoc"
    /\ IF IsSome(rub.meta)
       THEN LET assoc_id == rub.meta[1].rubric_association_id
            IN  /\ requests' = Append(requests,
                                      Req("DELETE", "rubric_association", assoc_id, 0))
                /\ \E ok \in Outcomes :
                    /\ failsLeft' = Spend(<<ok>>)
                    /\ IF ok
                       THEN /\ rAssignments' = DetachAssociation(rAssignments, assoc_id)
                            /\ actions' = Append(actions,
                                   Entry("deleted", "association", 0, assoc_id, 0, <<>>))
                       ELSE UNCHANGED <<rAssignments, actions>>
       ELSE UNCHANGED <<requests, failsLeft, rAssignments, actions>>
    /\ pc' = NextReplaceStep("rub_del_assoc")
    /\ UNCHANGED <<att, dry_log, board, conv, fm, apply, base_url, rModules, rPages, nextId, plan, due_map, loc,
                   exitCode, rub>>

\* 3) if rubric_id: delete_rubric_by_id(...): a failure is caught and printed
DeleteRubricById ==
    /\ pc = "rub_del_rubric"
    /\ IF IsSome(rub.meta)
       THEN LET rubric_id == rub.meta[1].id
            IN  /\ requests' = Append(requests, Req("DELETE", "rubric", rubric_id, 0))
                /\ \E ok \in Outcomes :
                    /\ failsLeft' = Spend(<<ok>>)
                    /\ IF ok
                       THEN /\ rAssignments' = DetachRubric(rAssignments, rubric_id)
                            /\ actions' = Append(actions,
                                   Entry("deleted", "rubric", 0, rubric_id, 0, <<>>))
                       ELSE UNCHANGED <<rAssignments, actions>>
       ELSE UNCHANGED <<requests, failsLeft, rAssignments, actions>>
    /\ pc' = NextReplaceStep("rub_del_rubric")
    /\ UNCHANGED <<att, dry_log, board, conv, fm, apply, base_url, rModules, rPages, nextId, plan, due_map, loc,
                   exitCode, rub>>

\* 4) and 5): build_rubric_payload_exact, course.create_rubric, and the caller's
\* WARNING when the function returned False
CreateRubric ==
    /\ pc = "rub_create"
    /\ LET a == rAssignments[IndexOfId(rAssignments, rub.assignment)]
           path == rub.work[rub.k].rubricpath
           failed == Entry("warning", "rubric-not-replaced", 0, a.id, 0, a.name)
       IN  IF RubricFileKind(path) = "malformed"
           THEN /\ actions' = Append(actions, failed)
                /\ UNCHANGED <<requests, rAssignments, nextId, failsLeft>>
           ELSE /\ requests' = Append(requests, Req("POST", "rubrics", a.id, 0))
                /\ \E ok \in Outcomes :
                    /\ failsLeft' = Spend(<<ok>>)
                    /\ IF ok
                       THEN /\ rAssignments' =
                                  AttachRubric(rAssignments, a.id, nextId, nextId + 1)
                            /\ nextId' = nextId + 2
                            /\ actions' = Append(actions,
                                   Entry("recreated", "rubric", 0, a.id, 0, a.name))
                       ELSE /\ actions' = Append(actions, failed)
                            /\ UNCHANGED <<rAssignments, nextId>>
    /\ NextDeliverable([rub EXCEPT !.meta = None])
    /\ UNCHANGED <<att, dry_log, board, conv, fm, apply, base_url, rModules, rPages, plan, due_map, loc>>

-----------------------------------------------------------------------------
(* Inputs of the rubric pass                                               *)

MaxRubricRows == 2

sQuiz1Lower == <<"q","u","i","z"," ","1">>
sQuiz1Sp == <<"Q","u","i","z"," ","1"," ">>
sQuizColonDue == <<"Q","u","i","z",":"," ","1"," ","D","u","e">>

\* the deliverables lists a row of the syllabus can carry
RubricDeliverableLists ==
    { <<>>,
      <<[dtitle |-> sQuiz1Due, rubricpath |-> sOkMd]>>,
      <<[dtitle |-> sHW10Due, rubricpath |-> sOkMd]>>,
      <<[dtitle |-> sHW10Due, rubricpath |-> sBadMd]>>,
      <<[dtitle |-> sHW10Due, rubricpath |-> sGoneMd]>>,
      <<[dtitle |-> sQuiz1Out, rubricpath |-> sOkMd],
        [dtitle |-> sHW10Due, rubricpath |-> <<>>]>>,
      <<[dtitle |-> sQuizColonDue, rubricpath |-> sOkMd]>> }

RubricRows ==
    {[Row(slot, ContentEmpty) EXCEPT !.deliverables = ds] :
        slot \in MainSlots, ds \in RubricDeliverableLists}

RubricFrontMatters ==
    {[course_start_date |-> MainStart, class_meets_days |-> MainDays, schedule |-> sch] :
        sch \in SeqsUpTo(RubricRows, MaxRubricRows)}

\* an existing rubric and its association
OldRubric == Some([id |-> 7, rubric_association_id |-> 8])

\* no assignment; "Quiz 1 " with a rubric; "quiz 1" without and "HW 10" with a rubric
RubricAssignmentLists ==
    { <<>>,
      <<[id |-> 1, name |-> sQuiz1Sp, due_at |-> None, html_url |-> sUrlC1,
         rubric_settings |-> OldRubric]>>,
      <<[id |-> 1, name |-> sQuiz1Lower, due_at |-> None, html_url |-> sUrlC1,
         rubric_settings |-> None],
        [id |-> 2, name |-> sHW10, due_at |-> None, html_url |-> sUrlC2,
         rubric_settings |-> OldRubric]>> }

InitRubric ==
    /\ fm \in RubricFrontMatters
    /\ apply = FALSE
    /\ base_url = <<>>
    /\ rModules = <<>>
    /\ rAssignments \in RubricAssignmentLists
    /\ rPages = <<>>
    /\ nextId = FirstFreeId
    /\ failsLeft = MaxFails
    /\ pc = "rub_start"
    /\ plan = [meetings |-> <<>>, deliverables_due |-> <<>>, deliverables_handed_out |-> <<>>]
    /\ due_map = <<>>
    /\ actions = <<>>
    /\ requests = <<>>
    /\ loc = LocInit
    /\ exitCode = None
    /\ rub = RubIdle
    /\ conv = ConvIdle
    /\ board = BoardIdle
    /\ att = AttIdle
    /\ dry_log = None

NextRubric ==
    \/ StartRubricPass
    \/ EnsureAssignment
    \/ GetAssignmentRubricMeta
    \/ DeleteRubricAssociation
    \/ DeleteRubricById
    \/ CreateRubric

SpecRubric == InitRubric /\ [][NextRubric]_vars

-----------------------------------------------------------------------------
(* Properties of the rubric pass                                           *)

InReplace == pc \in {"rub_meta", "rub_del_assoc", "rub_del_rubric", "rub_create"}

\* the deliverables ensure_assignment has been through
Ensured ==
    {n \in DOMAIN rub.work :
        /\ ~IsSkipped(DescriptionOf(rub.work[n].dtitle))
        /\ \/ n < rub.k
           \/ n = rub.k /\ (InReplace \/ Succeeded)}

\* the assignments the pass has created
CreatedAssignments == {i \in DOMAIN rAssignments : rAssignments[i].id >= FirstFreeId}

IsCreateAssignment(r) == r.m = "POST" /\ r.res = "assignments"

\* a request of the rubric replacement for the assignment with the id
IsRubricRequest(r) == r.res \in {"assignment", "rubrics"}

\* C6 as stated: the pass creates no assignment, and touches rubrics only of
\* assignments that existed before it ran.
C6_ExistingOnly ==
    \A k \in DOMAIN requests :
        /\ ~IsCreateAssignment(requests[k])
        /\ IsRubricRequest(requests[k]) => requests[k].id < FirstFreeId

\* C6: the pass finds or creates: an assignment is matched when its stripped
\* name equals the description exactly (case and inner spacing included); when no
\* assignment matches one is created with the description as its name; the rubric
\* is replaced only on an assignment found or created for a deliverable whose
\* rubric file exists.
C6_FindOrCreate ==
    /\ \A n \in Ensured :
          \E i \in DOMAIN rAssignments :
              Strip(rAssignments[i].name) = Strip(DescriptionOf(rub.work[n].dtitle))
    /\ \A i \in CreatedAssignments :
          /\ \E n \in DOMAIN rub.work :
                /\ ~IsSkipped(DescriptionOf(rub.work[n].dtitle))
                /\ rAssignments[i].name = DescriptionOf(rub.work[n].dtitle)
          /\ \A j \in 1..(i - 1) :
                Strip(rAssignments[j].name) # Strip(rAssignments[i].name)
    /\ Count(requests, IsCreateAssignment)
          = Cardinality(CreatedAssignments)
              + (IF /\ pc = "done"
                    /\ exitCode = Some(1)
                    /\ IsCreateAssignment(requests[Len(requests)])
                 THEN 1 ELSE 0)
    /\ \A k \in DOMAIN requests :
          IsRubricRequest(requests[k]) =>
              \E n \in DOMAIN rub.work :
                  /\ ~IsSkipped(DescriptionOf(rub.work[n].dtitle))
                  /\ RubricFileKind(rub.work[n].rubricpath) # "absent"
                  /\ Strip(rAssignments[IndexOfId(rAssignments, requests[k].id)].name)
                        = Strip(DescriptionOf(rub.work[n].dtitle))

\* the course had "quiz 1"; for "Quiz 1 Due" the pass created "Quiz 1" and gave it
\* the rubric
C6_Witness ==
    /\ \E i \in DOMAIN rAssignments : rAssignments[i].name = sQuiz1Lower
    /\ \E i \in CreatedAssignments :
          /\ rAssignments[i].name = sQuiz1
          /\ IsSome(rAssignments[i].rubric_settings)

\* the place of a request in one run of the replacement
ReplaceRank(r) ==
    CASE r.res = "assignment" -> 0
      [] r.res = "rubric_association" -> 1
      [] r.res = "rubric" -> 2
      [] r.res = "rubrics" -> 3
      [] OTHER -> -1

\* requests j..k belong to one run of the replacement
SameReplace(j, k) == \A n \in j..k : requests[n].res # "assignments"

NotReplaced(e) == e.tag = "warning" /\ e.kind = "rubric-not-replaced"

\* C7: within one replacement the association is deleted first, then the rubric,
\* then one create call is made; when the create fails after both deletions
\* succeeded the assignment stays without a rubric, the failure is reported
\* (the function returned False) and the pass goes on with the next deliverable.
C7_DeleteThenRecreate ==
    /\ \A j, k \in DOMAIN requests :
          (j < k /\ SameReplace(j, k)) =>
              ReplaceRank(requests[j]) < ReplaceRank(requests[k])
    /\ (pc = "rub_create" /\ IsSome(rub.meta)) =>
          /\ Len(requests) >= 2
          /\ requests[Len(requests) - 1]
                = Req("DELETE", "rubric_association", rub.meta[1].rubric_association_id, 0)
          /\ requests[Len(requests)] = Req("DELETE", "rubric", rub.meta[1].id, 0)
    /\ \A k \in DOMAIN actions :
          (/\ NotReplaced(actions[k])
           /\ k >= 3
           /\ actions[k - 2].tag = "deleted" /\ actions[k - 2].kind = "association"
           /\ actions[k - 1].tag = "deleted" /\ actions[k - 1].kind = "rubric"
           /\ \A n \in (k + 1)..Len(actions) :
                 ~(actions[n].tag = "recreated" /\ actions[n].num = actions[k].num)) =>
              rAssignments[IndexOfId(rAssignments, actions[k].num)].rubric_settings = None
    /\ Count(actions, LAMBDA e : NotReplaced(e) \/ e.tag = "recreated")
          = Count(requests, LAMBDA r : r.res = "assignment")
              - (IF pc \in {"rub_del_assoc", "rub_del_rubric", "rub_create"} THEN 1 ELSE 0)
    /\ Count(requests, LAMBDA r : r.res = "rubrics")
          >= Count(actions, LAMBDA e : e.tag = "recreated")
    /\ (pc = "done" /\ exitCode = Some(1)) =>
          /\ requests # <<>>
          /\ requests[Len(requests)].res = "assignments"
    /\ Succeeded =>
          Count(requests, LAMBDA r : r = Req("GET", "assignments", 0, 0))
              = Cardinality(Ensured)

\* both deletions succeeded, the create call failed: the assignment has no rubric,
\* the failure is reported and the pass is at its next deliverable
C7_Witness ==
    /\ pc = "rub_deliverable"
    /\ Len(actions) >= 3
    /\ NotReplaced(actions[Len(actions)])
    /\ actions[Len(actions) - 1] = Entry("deleted", "rubric", 0, 7, 0, <<>>)
    /\ actions[Len(actions) - 2] = Entry("deleted", "association", 0, 8, 0, <<>>)
    /\ requests[Len(requests)].res = "rubrics"
    /\ rAssignments[IndexOfId(rAssignments, actions[Len(actions)].num)].rubric_settings = None

-----------------------------------------------------------------------------
(* Name matching over assignment lists: main() up to apply_due_dates       *)

MaxMatchList == 3

sQuiz10 == sQuiz1 \o <<"0">>
sQuizLabelled == <<"Q","u","i","z",":"," ","q","u","i","z"," "," ","1"," ","D","u","e">>

\* names of remote assignments: exact matches of "quiz 1" (plain and labelled),
\* a name that only contains it, and names that have nothing to do with it
MatchNames == {sQuiz1, sQuizLabelled, sQuiz10, sHW10, sLab}

\* the lists of at most MaxMatchList assignments with distinct names, in every order
MatchAssignmentLists ==
    {[i \in DOMAIN names |->
        [id |-> i, name |-> names[i], due_at |-> None, html_url |-> <<>>,
         rubric_settings |-> None]] :
     names \in {s \in SeqsUpTo(MatchNames, MaxMatchList) :
                   \A i, j \in DOMAIN s : i # j => s[i] # s[j]}}

MatchFrontMatters ==
    {[course_start_date |-> MainStart, class_meets_days |-> MainDays,
      schedule |-> <<[Row(<<0, 0>>, ContentEmpty) EXCEPT !.deliverables = ds]>>] :
     ds \in {<<[dtitle |-> sQuiz1Due]>>, <<[dtitle |-> sHW10Due]>>,
             <<[dtitle |-> sQuiz1Due], [dtitle |-> sHW10Due]>>}}

InitMatch ==
    /\ fm \in MatchFrontMatters
    /\ apply \in BOOLEAN
    /\ base_url = <<>>
    /\ rModules = <<>>
    /\ rAssignments \in MatchAssignmentLists
    /\ rPages = <<>>
    /\ nextId = FirstFreeId
    /\ failsLeft = 0
    /\ ProgInit
    /\ rub = RubIdle
    /\ conv = ConvIdle
    /\ board = BoardIdle
    /\ att = AttIdle
    /\ dry_log = None

NextMatch ==
    \/ ExtractPlan
    \/ BuildDueMap
    \/ DueListAssignments
    \/ DueStep

SpecMatch == InitMatch /\ [][NextMatch]_vars

\* the listed assignments whose normalized name is the key
ExactCandidates(key) == {a \in Range(loc.assignments) : AssignmentKey(a) = key}

\* C14: the assignment matched for a key is one whose normalized name equals the
\* key whenever the list holds such an assignment, wherever it stands in the
\* list; otherwise it is one whose normalized name contains the key; no
\* assignment is matched only when neither exists.
C14_ExactBeforeLoose ==
    \A k \in DOMAIN DueLog :
        LET key == due_map[k].key
            e == DueLog[k]
            matched == {a \in Range(loc.assignments) : a.id = e.num}
        IN  /\ e.txt = key
            /\ IF ExactCandidates(key) # {}
               THEN e.tag # "warn" /\ matched # {} /\ matched \subseteq ExactCandidates(key)
               ELSE IF Candidates(key) # {}
               THEN e.tag # "warn" /\ matched # {} /\ matched \subseteq Candidates(key)
               ELSE e.tag = "warn"

\* a list in which an assignment that only contains the key stands before the
\* exact match, and the exact match was taken
C14_Witness ==
    /\ Len(loc.assignments) >= 2
    /\ loc.assignments[1].name = sQuiz10
    /\ DueLog # <<>>
    /\ DueLog[1].txt = _norm(sQuiz1)
    /\ DueLog[1].tag = "update"
    /\ DueLog[1].num > 1
    /\ \E a \in ExactCandidates(_norm(sQuiz1)) : a.id = DueLog[1].num /\ a.name = sQuizLabelled

-----------------------------------------------------------------------------
(* The two scripts on one syllabus: the class dates they compute           *)

\* rows with a week and an ordinal (negative, in or out of range) and one deliverable
CalendarRows ==
    {[Row(<<w, o>>, ContentEmpty) EXCEPT
          !.deliverables = <<[dtitle |-> sHW10Due, rubricpath |-> <<>>]>>] :
        w \in 0..MaxWeek, o \in -1..MaxOrdinal}

CalendarFrontMatters ==
    {[course_start_date |-> st, class_meets_days |-> ds, schedule |-> sch] :
        st \in PlanStarts, ds \in PlanDaySets \ {{}},
        sch \in SeqsUpTo(CalendarRows, MaxPlanRows)}

\* either script is started on the syllabus
InitCalendar ==
    /\ fm \in CalendarFrontMatters
    /\ apply = FALSE
    /\ base_url = <<>>
    /\ rModules = <<>>
    /\ rAssignments = <<>>
    /\ rPages = <<>>
    /\ nextId = FirstFreeId
    /\ failsLeft = 0
    /\ pc \in {"start", "rub_start"}
    /\ plan = [meetings |-> <<>>, deliverables_due |-> <<>>, deliverables_handed_out |-> <<>>]
    /\ due_map = <<>>
    /\ actions = <<>>
    /\ requests = <<>>
    /\ loc = LocInit
    /\ exitCode = None
    /\ rub = RubIdle
    /\ conv = ConvIdle
    /\ board = BoardIdle
    /\ att = AttIdle
    /\ dry_log = None

NextCalendar ==
    \/ ExtractPlan
    \/ StartRubricPass

SpecCalendar == InitCalendar /\ [][NextCalendar]_vars

\* the date the schedule updater gives the meeting of a row it keeps
UpdaterDateOf(r) ==
    _compute_date_for_week_and_ordinal(
        _parse_date_yyyy_slash_mm_slash_dd(fm.course_start_date),
        ListItem(_active_days_from(fm), r.date[1]), r.week[1])

\* C16: the rubric script dates every row as the schedule updater does: the class
\* date of the k-th row (each row here has one deliverable) is the updater's
\* date of the ordinal-th active day of that week, and a row the updater skips
\* for its ordinal gets no date from the rubric script.
C16_SameCalendar ==
    pc = "rub_deliverable" =>
        /\ Len(rub.work) = Count(fm.schedule, LAMBDA r : RowKept(r, _active_days_from(fm)))
        /\ Len(rub.work) = Len(fm.schedule) =>
              \A k \in DOMAIN rub.work : rub.work[k].class_dt = UpdaterDateOf(fm.schedule[k])

-----------------------------------------------------------------------------
(* syllabus_markdown_table_generator: generate-schedule.py                 *)

\* the numbered CSV columns: dtitle1..3 and rtitle1..5
DeliverableSlots == 3
ReadingSlots == 5

\* one printed line of YAML: indentation, "- " marker, key, and the text after
\* "key: " with whether it was printed inside double quotes
YamlLine(indent, dash, key, quoted, text) ==
    [indent |-> indent, dash |-> dash, key |-> key, quoted |-> quoted, text |-> text]

sFalse == <<"f","a","l","s","e">>
sTrue == <<"t","r","u","e">>
sNull == <<"n","u","l","l">>

\* len(strip(x)) > 0
Filled(x) == Len(Strip(x)) > 0

\* lines 26-61: the lines printed for deliverable
\* slot n; only slot 1 prints the "deliverables:" key
DeliverableLines(row, n) ==
    IF Filled(row.d[n].dtitle)
    THEN (IF n = 1 THEN <<YamlLine(4, FALSE, "deliverables", FALSE, <<>>)>> ELSE <<>>)
         \o <<YamlLine(6, TRUE, "dtitle", TRUE, row.d[n].dtitle)>>
         \o (IF Filled(row.d[n].dlink)
             THEN <<YamlLine(8, FALSE, "dlink", TRUE, row.d[n].dlink)>>
             ELSE <<YamlLine(8, FALSE, "dlink", FALSE, sFalse)>>)
         \o <<YamlLine(8, FALSE, "points", FALSE, row.d[n].dpoints)>>
         \o (IF Filled(row.d[n].dtype)
             THEN <<YamlLine(8, FALSE, "submission_types", TRUE, row.d[n].dtype)>>
             ELSE <<>>)
         \o (IF Filled(row.d[n].drubric)
             THEN <<YamlLine(8, FALSE, "rubricpath", TRUE, row.d[n].drubric)>>
             ELSE <<>>)
    ELSE <<>>

\* lines 63-98: the lines printed for reading slot n; only slot 1 prints "readings:"
ReadingLines(row, n) ==
    IF Filled(row.r[n].rtitle)
    THEN (IF n = 1 THEN <<YamlLine(4, FALSE, "readings", FALSE, <<>>)>> ELSE <<>>)
         \o <<YamlLine(6, TRUE, "rtitle", TRUE, row.r[n].rtitle)>>
         \o (IF Filled(row.r[n].rlink)
             THEN <<YamlLine(8, FALSE, "rlink", TRUE, row.r[n].rlink)>>
             ELSE <<YamlLine(8, FALSE, "rlink", FALSE, sFalse)>>)
    ELSE <<>>

RECURSIVE SlotLines(_, _, _, _)
\* the lines of slots n..last, by DeliverableLines or ReadingLines
SlotLines(row, n, last, deliverable) ==
    IF n > last THEN <<>>
    ELSE (IF deliverable THEN DeliverableLines(row, n) ELSE ReadingLines(row, n))
         \o SlotLines(row, n + 1, last, deliverable)

\* lines 17-98: everything printed for one CSV row
ScheduleLines(row) ==
    <<YamlLine(2, TRUE, "week", TRUE, row.Week),
      YamlLine(4, FALSE, "date", TRUE, row.Day),
      YamlLine(4, FALSE, "title", TRUE, row.Title)>>
    \o (IF Filled(row.Link) THEN <<YamlLine(4, FALSE, "link", TRUE, row.Link)>> ELSE <<>>)
    \o SlotLines(row, 1, DeliverableSlots, TRUE)
    \o SlotLines(row, 1, ReadingSlots, FALSE)

-----------------------------------------------------------------------------
(* syllabus_markdown_table_generator: markdown-to-csv.py                   *)

\* YAML scalars as frontmatter.load returns them
YStr(s) == [t |-> "str", s |-> s, n |-> 0]
YInt(n) == [t |-> "int", s |-> <<>>, n |-> n]
YFalse == [t |-> "bool", s |-> <<>>, n |-> 0]
YTrue == [t |-> "bool", s |-> <<>>, n |-> 1]
YNull == [t |-> "null", s |-> <<>>, n |-> 0]

DigitValue(c) == CHOOSE v \in 0..9 : Digits[v + 1] = c

RECURSIVE ParseDecimal(_)
ParseDecimal(s) ==
    IF s = <<>> THEN 0 ELSE 10 * ParseDecimal(DropLast(s, 1)) + DigitValue(s[Len(s)])

RECURSIVE FormatDecimal(_)
\* str(n) of a non-negative int
FormatDecimal(n) ==
    IF n < 10 THEN <<Digits[n + 1]>> ELSE FormatDecimal(n \div 10) \o <<Digits[(n % 10) + 1]>>

\* a decimal integer as YAML resolves it: "0", or digits without a leading zero
IsYamlInt(s) ==
    /\ s # <<>>
    /\ \A i \in DOMAIN s : s[i] \in Range(Digits)
    /\ (s[1] # "0" \/ Len(s) = 1)

\* the value of the text after "key: ": a quoted string, or a plain scalar
\* (nothing and null are None, true and false booleans, digits an int, else a string)
YamlScalar(line) ==
    IF line.quoted THEN YStr(line.text)
    ELSE IF Strip(line.text) \in {<<>>, sNull} THEN YNull
    ELSE IF Strip(line.text) = sFalse THEN YFalse
    ELSE IF Strip(line.text) = sTrue THEN YTrue
    ELSE IF IsYamlInt(Strip(line.text)) THEN YInt(ParseDecimal(Strip(line.text)))
    ELSE YStr(Strip(line.text))

\* a mapping with one more key
WithKey(map, key, val) == [k \in DOMAIN map \cup {key} |-> IF k = key THEN val ELSE map[k]]

EmptyMap == [k \in {} |-> YNull]

\* the block sequence under the key `open` with a field added to its last item
WithItemField(day, open, key, val) ==
    LET items == day[open]
    IN  WithKey(day, open,
                [items EXCEPT ![Len(items)] = WithKey(items[Len(items)], key, val)])

RECURSIVE LoadDay(_, _, _)
\* frontmatter.load on the printed lines of one schedule entry: the mapping of
\* the entry, or None where the YAML parser raises.  `open` is the key whose
\* block sequence the next "- " line below the entry's keys continues ("" if
\* the last key of the entry holds a scalar: a sequence cannot start there).
LoadDay(lines, day, open) ==
    IF lines = <<>> THEN Some(day)
    ELSE LET l == Head(lines)
         IN  IF l.indent = 2 \/ (l.indent = 4 /\ ~l.dash)
             THEN IF l.key \in {"deliverables", "readings"}
                  THEN LoadDay(Tail(lines), WithKey(day, l.key, <<>>), l.key)
                  ELSE LoadDay(Tail(lines), WithKey(day, l.key, YamlScalar(l)), "")
             ELSE IF l.dash
             THEN IF open = "" THEN None
                  ELSE LoadDay(Tail(lines),
                               WithKey(day, open,
                                       Append(day[open], WithKey(EmptyMap, l.key, YamlScalar(l)))),
                               open)
             ELSE LoadDay(Tail(lines), WithItemField(day, open, l.key, YamlScalar(l)), open)

\* input[source] != False: in Python 0 == False
EqualsFalse(v) == v.t \in {"bool", "int"} /\ v.n = 0

\* lines 5-12: the value stored in the row for `source`
dictinsert(source, input) ==
    IF source \in DOMAIN input
    THEN IF ~EqualsFalse(input[source]) THEN input[source] ELSE YStr(<<>>)
    ELSE YStr(<<>>)

\* csv.DictWriter writes None as the empty string and anything else as str(value)
CsvCell(v) ==
    CASE v.t = "str" -> v.s
      [] v.t = "int" -> FormatDecimal(v.n)
      [] OTHER -> <<>>

EmptyDeliverable ==
    [dtitle |-> <<>>, dlink |-> <<>>, dpoints |-> <<>>, drubric |-> <<>>, dtype |-> <<>>]

EmptyReading == [rtitle |-> <<>>, rlink |-> <<>>]

\* lines 36-54: the deliverable columns of the row; slots past the list stay
\* unset and DictWriter fills them with ''; the loop stops after slot 3
DeliverableCells(day) ==
    [n \in 1..DeliverableSlots |->
        IF "deliverables" \in DOMAIN day /\ n <= Len(day["deliverables"])
        THEN LET d == day["deliverables"][n]
             IN  [dtitle |-> CsvCell(dictinsert("dtitle", d)),
                  dlink |-> CsvCell(dictinsert("dlink", d)),
                  dpoints |-> CsvCell(dictinsert("points", d)),
                  drubric |-> CsvCell(dictinsert("rubricpath", d)),
                  dtype |-> CsvCell(dictinsert("submission_types", d))]
        ELSE EmptyDeliverable]

\* lines 57-70: the reading columns of the row
ReadingCells(day) ==
    [n \in 1..ReadingSlots |->
        IF "readings" \in DOMAIN day /\ n <= Len(day["readings"])
        THEN LET r == day["readings"][n]
             IN  [rtitle |-> CsvCell(dictinsert("rtitle", r)),
                  rlink |-> CsvCell(dictinsert("rlink", r))]
        ELSE EmptyReading]

\* lines 28-72: the CSV row written for one schedule entry
CsvRowOf(day) ==
    [Week |-> CsvCell(dictinsert("week", day)),
     Day |-> CsvCell(dictinsert("date", day)),
     Title |-> CsvCell(dictinsert("title", day)),
     Link |-> CsvCell(dictinsert("link", day)),
     d |-> DeliverableCells(day),
     r |-> ReadingCells(day)]

-----------------------------------------------------------------------------
(* The converters on one CSV row: generate-schedule, then markdown-to-csv   *)

\* generate-schedule.py, lines 17-98: the row is printed as a schedule entry
GenerateSchedule ==
    /\ conv.pc = "generate"
    /\ conv' = [conv EXCEPT !.lines = ScheduleLines(conv.row), !.pc = "load"]
    /\ UNCHANGED <<updInputs, remoteVars, progVars, rub, board, att, dry_log>>

\* markdown-to-csv.py, line 22: syllabus = frontmatter.load(fname); a YAML
\* parser error ends the script with a traceback
LoadSyllabus ==
    /\ conv.pc = "load"
    /\ LET day == LoadDay(conv.lines, EmptyMap, "")
       IN  conv' = IF IsSome(day)
                   THEN [conv EXCEPT !.day = day, !.pc = "write"]
                   ELSE [conv EXCEPT !.error = TRUE, !.pc = "done"]
    /\ UNCHANGED <<updInputs, remoteVars, progVars, rub, board, att, dry_log>>

\* markdown-to-csv.py, lines 28-72: the row of the entry is written
WriteCsvRow ==
    /\ conv.pc = "write"
    /\ conv' = [conv EXCEPT !.out = Some(CsvRowOf(conv.day[1])), !.pc = "done"]
    /\ UNCHANGED <<updInputs, remoteVars, progVars, rub, board, att, dry_log>>

sZero == <<"0">>
sOne == <<"1">>
sTen == <<"1","0">>
sText == <<"o","n","l","i","n","e","_","t","e","x","t","_","e","n","t","r","y">>

\* what a deliverable slot of the CSV row can hold: nothing, every column, a
\* title alone, a title with 0 points
ConvDeliverables ==
    { EmptyDeliverable,
      [dtitle |-> sQuiz1, dlink |-> sHttpA, dpoints |-> sTen, drubric |-> sOkMd,
       dtype |-> sText],
      [EmptyDeliverable EXCEPT !.dtitle = sHW10],
      [EmptyDeliverable EXCEPT !.dtitle = sLab, !.dpoints = sZero] }

\* what a reading slot can hold: nothing, a title with a link, a title alone
ConvReadings ==
    { EmptyReading,
      [rtitle |-> sCh1, rlink |-> sHttpA],
      [rtitle |-> sCh1, rlink |-> <<>>] }

ConvRows ==
    {[Week |-> sZero, Day |-> sOne, Title |-> sIntro, Link |-> link, d |-> d, r |-> r] :
        link \in {<<>>, sHttpA},
        d \in [1..DeliverableSlots -> ConvDeliverables],
        r \in [1..ReadingSlots -> ConvReadings]}

InitConvert ==
    /\ fm = [course_start_date |-> MainStart, class_meets_days |-> MainDays,
             schedule |-> <<>>]
    /\ apply = FALSE
    /\ base_url = <<>>
    /\ rModules = <<>>
    /\ rAssignments = <<>>
    /\ rPages = <<>>
    /\ nextId = FirstFreeId
    /\ failsLeft = 0
    /\ pc = "done"
    /\ plan = [meetings |-> <<>>, deliverables_due |-> <<>>, deliverables_handed_out |-> <<>>]
    /\ due_map = <<>>
    /\ actions = <<>>
    /\ requests = <<>>
    /\ loc = LocInit
    /\ exitCode = None
    /\ rub = RubIdle
    /\ board = BoardIdle
    /\ att = AttIdle
    /\ dry_log = None
    /\ \E row \in ConvRows :
          conv = [pc |-> "generate", row |-> row, lines |-> <<>>, day |-> None,
                  out |-> None, error |-> FALSE]

NextConvert ==
    \/ GenerateSchedule
    \/ LoadSyllabus
    \/ WriteCsvRow

SpecConvert == InitConvert /\ [][NextConvert]_vars

\* C17: for every CSV row, rows with an empty slot before a filled one included,
\* generate-schedule followed by markdown-to-csv ends without an error and
\* writes the row it started from, every field in its numbered slot.
C17_RoundTrip ==
    conv.pc = "done" => (~conv.error /\ conv.out = Some(conv.row))

-----------------------------------------------------------------------------
(* scheduler.py: the Schedule Board editor                                 *)
(* A file is its top-level YAML entries in order, each the line            *)
(* "key: value" or, for the schedule, the printed lines of every day, and  *)
(* the Markdown body after the closing "---".  Scalars are tagged as in    *)
(* markdown-to-csv.py; titles and links hold no double quote.              *)

\* line 364
CATS == <<"readings", "deliverables", "lectures">>

YList(items) == [t |-> "list", s |-> items, n |-> 0]

\* str(v) of a loaded scalar
PyStr(v) ==
    CASE v.t = "str" -> v.s
      [] v.t = "int" -> FormatDecimal(v.n)
      [] v.t = "bool" -> IF v.n = 1 THEN <<"T","r","u","e">> ELSE <<"F","a","l","s","e">>
      [] OTHER -> <<"N","o","n","e">>

\* bool(v) of a loaded scalar
Truthy(v) ==
    CASE v.t = "str" -> v.s # <<>>
      [] v.t \in {"int", "bool"} -> v.n # 0
      [] OTHER -> FALSE

\* entry.get(key, default) on a loaded mapping
MapGet(map, key, default) == IF key \in DOMAIN map THEN map[key] ELSE default

\* lines 76-88, _quote_scalar: [quoted, text] as printed after "key: "
_quote_scalar(v) ==
    IF v.t = "null" THEN [quoted |-> FALSE, text |-> sFalse]
    ELSE IF v.t = "bool" THEN [quoted |-> FALSE, text |-> IF v.n = 1 THEN sTrue ELSE sFalse]
    ELSE [quoted |-> TRUE, text |-> PyStr(v)]

\* one "key: value" line carrying a _quote_scalar result
QuotedLine(indent, dash, key, q) == YamlLine(indent, dash, key, q.quoted, q.text)

\* the keys of an item's _extra in the order they are printed
ExtraKeys == <<"points", "submission_types", "rubricpath">>

\* lines 91-113, _emit_kv_block at base_indent 4: the first pair after "- "
\* at indentation 4, the others at indentation 6
_emit_kv_block(pairs) ==
    [i \in DOMAIN pairs |->
        QuotedLine(IF i = 1 THEN 4 ELSE 6, i = 1, pairs[i].key, pairs[i].q)]

\* the (key, printed value) pairs of the extras of an item that are not None
ExtraPairs(item) ==
    LET present(k) == k \in DOMAIN item._extra /\ item._extra[k].t # "null"
        keys == SelectSeq(ExtraKeys, present)
    IN  [i \in DOMAIN keys |-> [key |-> keys[i], q |-> _quote_scalar(item._extra[keys[i]])]]

\* item.get("link") printed as rlink / dlink: "rlink if rlink else False"
LinkOrFalse(item) ==
    IF item.link # None /\ item.link[1] # <<>> THEN _quote_scalar(YStr(item.link[1]))
    ELSE _quote_scalar(YFalse)

\* lines 137-149 and 151-176: the block of one reading or deliverable
ItemLines(item, tkey, lkey) ==
    _emit_kv_block(<<[key |-> tkey, q |-> _quote_scalar(YStr(item.title))],
                     [key |-> lkey, q |-> LinkOrFalse(item)]>>
                   \o ExtraPairs(item))

RECURSIVE ItemsLines(_, _, _)
ItemsLines(items, tkey, lkey) ==
    IF items = <<>> THEN <<>>
    ELSE ItemLines(Head(items), tkey, lkey) \o ItemsLines(Tail(items), tkey, lkey)

\* lines 126-133: title and link of day["lectures"][:1], each when truthy
LectureLines(lectures) ==
    IF lectures = <<>> THEN <<>>
    ELSE (IF Head(lectures).title # <<>>
          THEN <<QuotedLine(4, FALSE, "title", _quote_scalar(YStr(Head(lectures).title)))>>
          ELSE <<>>)
         \o (IF Head(lectures).link # None /\ Head(lectures).link[1] # <<>>
             THEN <<QuotedLine(4, FALSE, "link", _quote_scalar(YStr(Head(lectures).link[1])))>>
             ELSE <<>>)

\* lines 116-178, _dump_schedule_one_day
_dump_schedule_one_day(day) ==
    <<QuotedLine(2, TRUE, "week", _quote_scalar(day.week)),
      QuotedLine(4, FALSE, "date", _quote_scalar(day.slot))>>
    \o LectureLines(day.lectures)
    \o (IF day.readings # <<>>
        THEN <<YamlLine(4, FALSE, "readings", FALSE, <<>>)>>
             \o ItemsLines(day.readings, "rtitle", "rlink")
        ELSE <<>>)
    \o (IF day.deliverables # <<>>
        THEN <<YamlLine(4, FALSE, "deliverables", FALSE, <<>>)>>
             \o ItemsLines(day.deliverables, "dtitle", "dlink")
        ELSE <<>>)

\* yaml.safe_dump({key: value}) of a scalar: a string is printed plain when
\* the plain text reads back as that string, in single quotes otherwise
SafeDumpLine(key, value) ==
    CASE value.t = "int" -> YamlLine(0, FALSE, key, FALSE, FormatDecimal(value.n))
      [] value.t = "bool" -> YamlLine(0, FALSE, key, FALSE, IF value.n = 1 THEN sTrue ELSE sFalse)
      [] value.t = "null" -> YamlLine(0, FALSE, key, FALSE, sNull)
      [] OTHER ->
          LET plain == YamlLine(0, FALSE, key, FALSE, value.s)
          IN  IF YamlScalar(plain) = value THEN plain
              ELSE YamlLine(0, FALSE, key, TRUE, value.s)

\* the front matter dict: its (key, value) pairs in insertion order
FmKeys(pairs) == [i \in DOMAIN pairs |-> pairs[i].key]
FmHas(pairs, key) == \E i \in DOMAIN pairs : pairs[i].key = key
FmGet(pairs, key, default) ==
    IF FmHas(pairs, key)
    THEN pairs[CHOOSE i \in DOMAIN pairs : pairs[i].key = key].value
    ELSE default

\* the pair removed and added again at the end
FmSet_AtEnd(pairs, key, value) ==
    Append(SelectSeq(pairs, LAMBDA p : p.key # key), [key |-> key, value |-> value])

\* d[key] = value on a dict: in place when the key exists, at the end otherwise
FmSet(pairs, key, value) ==
    IF FmHas(pairs, key)
    THEN [i \in DOMAIN pairs |-> IF pairs[i].key = key THEN [key |-> key, value |-> value]
                                 ELSE pairs[i]]
    ELSE Append(pairs, [key |-> key, value |-> value])

\* lines 226-265, serialize_schedule_to_front_matter: a copy of fm whose
\* 'schedule' is the internal day list
serialize_schedule_to_front_matter(days, front) ==
    FmSet(front, "schedule", [t |-> "days", s |-> days, n |-> 0])

\* lines 330-356, dump_front_matter_with_multiline_schedule: the schedule in
\* place by the custom emitter, every other key by yaml.safe_dump
dump_front_matter_with_multiline_schedule(front) ==
    [i \in DOMAIN front |->
        IF front[i].key = "schedule"
        THEN [key |-> "schedule", line |-> YamlLine(0, FALSE, "schedule", FALSE, <<>>),
              days |-> [d \in DOMAIN front[i].value.s |->
                            _dump_schedule_one_day(front[i].value.s[d])]]
        ELSE [key |-> front[i].key, line |-> SafeDumpLine(front[i].key, front[i].value),
              days |-> <<>>]]

\* lines 181-219, write_markdown_with_front_matter: "---", the front matter,
\* "---", the body
write_markdown_with_front_matter(front, body) ==
    [md |-> TRUE, entries |-> dump_front_matter_with_multiline_schedule(front),
     body |-> body]

\* lines 486-488: a pure YAML file is the dumped mapping alone
WriteYaml(front) ==
    [md |-> FALSE, entries |-> dump_front_matter_with_multiline_schedule(front),
     body |-> <<>>]

\* yaml.safe_load of the entries of a file: the (key, value) pairs, or None
\* where a day does not parse
SafeLoad(entries) ==
    LET dayOf(i, d) == LoadDay(entries[i].days[d], EmptyMap, "")
    IN  IF \E i \in DOMAIN entries : \E d \in DOMAIN entries[i].days : dayOf(i, d) = None
        THEN None
        ELSE Some([i \in DOMAIN entries |->
                     [key |-> entries[i].key,
                      value |-> IF entries[i].days = <<>> THEN YamlScalar(entries[i].line)
                                ELSE YList([d \in DOMAIN entries[i].days |-> dayOf(i, d)[1]])]])

\* lines 30-68, read_markdown_with_front_matter: (fm, body) of a file that
\* starts with "---", (None, text) otherwise; fm is {} for an empty mapping
read_markdown_with_front_matter(file) ==
    IF file.md
    THEN [fm |-> SafeLoad(file.entries), body |-> Some(file.body), raised |-> SafeLoad(file.entries) = None]
    ELSE [fm |-> None, body |-> None, raised |-> FALSE]

\* lines 285, 295-296, 305-306: the title and link of a loaded entry
LectureTitleRaises(entry) ==
    LET v == MapGet(entry, "title", YNull) IN Truthy(v) /\ v.t # "str"

LectureTitle(entry) ==
    LET v == MapGet(entry, "title", YNull) IN IF Truthy(v) THEN Strip(v.s) ELSE <<>>

LectureLink(entry) ==
    LET v == MapGet(entry, "link", YNull)
    IN  IF v.t \in {"bool", "null"} THEN None ELSE Some(PyStr(v))

ItemTitle(r, tkey) == Strip(PyStr(MapGet(r, tkey, MapGet(r, "title", YStr(<<>>)))))

ItemLink(r, lkey) ==
    LET v == MapGet(r, lkey, MapGet(r, "link", YNull))
    IN  IF v = YFalse \/ v.t = "null" \/ v = YStr(<<>>) THEN None
        ELSE Some(Strip(PyStr(v)))

ItemExtra(r, tkey, lkey) ==
    [k \in DOMAIN r \ {tkey, lkey, "title", "link"} |-> r[k]]

NormalizeItems(list, tkey, lkey) ==
    [i \in DOMAIN list |->
        [title |-> ItemTitle(list[i], tkey), link |-> ItemLink(list[i], lkey),
         _extra |-> ItemExtra(list[i], tkey, lkey)]]

\* lines 267-327, normalize_schedule_from_front_matter
RawSchedule(front) ==
    LET v == FmGet(front, "schedule", YList(<<>>))
    IN  IF v.t = "list" THEN v.s ELSE <<>>

NormalizeRaises(front) ==
    \E i \in DOMAIN RawSchedule(front) : LectureTitleRaises(RawSchedule(front)[i])

normalize_schedule_from_front_matter(front) ==
    LET raw == RawSchedule(front)
    IN  [i \in DOMAIN raw |->
            [week |-> MapGet(raw[i], "week", YStr(<<>>)),
             slot |-> MapGet(raw[i], "date", YStr(<<>>)),
             readings |-> NormalizeItems(MapGet(raw[i], "readings", <<>>), "rtitle", "rlink"),
             deliverables |-> NormalizeItems(MapGet(raw[i], "deliverables", <<>>), "dtitle", "dlink"),
             lectures |-> IF LectureTitle(raw[i]) # <<>>
                          THEN <<[title |-> LectureTitle(raw[i]), link |-> LectureLink(raw[i]),
                                  _extra |-> EmptyMap]>>
                          ELSE <<>>]]

\* int(v) of a week or slot: None where int() raises
IntOf(v) ==
    CASE v.t \in {"int", "bool"} -> Some(v.n)
      [] v.t = "str" /\ Strip(v.s) # <<>> /\ \A i \in DOMAIN Strip(v.s) : Strip(v.s)[i] \in Range(Digits)
            -> Some(ParseDecimal(Strip(v.s)))
      [] OTHER -> None

DayBefore(a, b) ==
    \/ IntOf(a.week)[1] < IntOf(b.week)[1]
    \/ IntOf(a.week)[1] = IntOf(b.week)[1] /\ IntOf(a.slot)[1] < IntOf(b.slot)[1]

RECURSIVE InsertDay(_, _)
InsertDay(sorted, day) ==
    IF sorted = <<>> THEN <<day>>
    ELSE IF DayBefore(day, sorted[Len(sorted)])
         THEN Append(InsertDay(DropLast(sorted, 1), day), sorted[Len(sorted)])
         ELSE Append(sorted, day)

RECURSIVE SortedDays(_)
SortedDays(days) ==
    IF days = <<>> THEN <<>>
    ELSE InsertDay(SortedDays(DropLast(days, 1)), days[Len(days)])

\* lines 457-460: days.sort by (int(week), int(slot)), left alone where int() raises
SortDays(days) ==
    IF \E i \in DOMAIN days : IntOf(days[i].week) = None \/ IntOf(days[i].slot) = None
    THEN days
    ELSE SortedDays(days)

-----------------------------------------------------------------------------
(* scheduler.py: conflict detection                                        *)

sLinkTag == <<"[","l","i","n","k","]">>

\* str.rstrip(" -–:•") over the characters of the model
RStripMarks(s) ==
    LET keep == {i \in DOMAIN s : s[i] \notin {" ", "-", ":"}}
    IN  IF keep = {} THEN <<>>
        ELSE SubSeq(s, 1, CHOOSE i \in keep : \A j \in keep : i >= j)

\* lines 873-882, _normalize_deliverable_base: [base, suff], suff "" for None
_normalize_deliverable_base(title) ==
    LET t0 == Strip(title)
        t == IF EndsWith(t0, sLinkTag)
             THEN DropLast(DropLast(t0, 6), TrailSpaces(DropLast(t0, 6)))
             ELSE t0
        low == Lower(t)
    IN  IF EndsWith(low, sHandedOut)
        THEN [base |-> Strip(RStripMarks(DropLast(t, Len(sHandedOut)))), suff |-> "Handed Out"]
        ELSE IF EndsWith(low, sDue)
        THEN [base |-> Strip(RStripMarks(DropLast(t, Len(sDue)))), suff |-> "Due"]
        ELSE [base |-> t, suff |-> ""]

\* lines 861-871, _date_key: (int(week), int(slot)), 0 where int() raises
_date_key(day) ==
    <<IF IntOf(day.week) = None THEN 0 ELSE IntOf(day.week)[1],
      IF IntOf(day.slot) = None THEN 0 ELSE IntOf(day.slot)[1]>>

\* a < b for tuples of two ints
DateKeyLess(a, b) == a[1] < b[1] \/ (a[1] = b[1] /\ a[2] < b[2])

\* lines 896-903: the entries of index[base][suff] over every base, each with
\* its base: (day, item, date key) of a deliverable whose title ends in suff
IndexEntries(days, suff) ==
    UNION {{[di |-> d, ii |-> i, dk |-> _date_key(days[d]),
             base |-> _normalize_deliverable_base(days[d].deliverables[i].title).base] :
               i \in {j \in DOMAIN days[d].deliverables :
                        _normalize_deliverable_base(days[d].deliverables[j].title).suff = suff}} :
           d \in DOMAIN days}

\* every lecture of a day with more than one
LectureCollisions_FromFirst(days) ==
    UNION {{<<d, "lectures", li>> : li \in 1..Len(days[d].lectures)} :
           d \in {e \in DOMAIN days : Len(days[e].lectures) > 1}}

\* lines 888-892: every lecture after the first of a day
LectureCollisions(days) ==
    UNION {{<<d, "lectures", li>> : li \in 2..Len(days[d].lectures)} : d \in DOMAIN days}

\* lines 905-929: per base with both parts, the Due entries before the earliest
\* Handed Out, and the Due and Handed Out entries of one date
DeliverableConflicts(days) ==
    LET handed == IndexEntries(days, "Handed Out")
        due == IndexEntries(days, "Due")
        handedOf(base) == {h \in handed : h.base = base}
        early == {e \in due : handedOf(e.base) # {}
                              /\ \A h \in handedOf(e.base) : DateKeyLess(e.dk, h.dk)}
        sameDue == {e \in due : \E h \in handedOf(e.base) : h.dk = e.dk}
        sameHanded == {h \in handed : \E e \in due : e.base = h.base /\ e.dk = h.dk}
    IN  {<<e.di, "deliverables", e.ii>> : e \in early \cup sameDue \cup sameHanded}

\* lines 884-929, _recompute_conflicts: the new self._conflict_items
_recompute_conflicts(days) == LectureCollisions(days) \cup DeliverableConflicts(days)

\* lines 931-932, _item_tags_for: whether the item gets the "conflict" tag
_item_tags_for(conflict_items, day_idx, cat, item_idx) ==
    <<day_idx, cat, item_idx>> \in conflict_items

\* the positions of the items of one category branch
BranchItems(days, day_idx, cat) == {<<day_idx, cat, i>> : i \in DOMAIN days[day_idx][cat]}

\* lines 515-537, _rebuild_tree: every item row inserted anew with its tags
_rebuild_tree(b) ==
    LET conflicts == _recompute_conflicts(b.days)
    IN  [b EXCEPT !._conflict_items = conflicts,
                  !.tags = {n \in UNION {BranchItems(b.days, d, c) :
                                            d \in DOMAIN b.days, c \in Range(CATS)} :
                               _item_tags_for(conflicts, n[1], n[2], n[3])}]

\* lines 828-859, _refresh_category_branch: the rows of the branch
\* (day_idx, cat) inserted anew with their tags, every other row left as it is
_refresh_category_branch(b, day_idx, cat) ==
    LET conflicts == _recompute_conflicts(b.days)
        branch(n) == n[1] = day_idx /\ n[2] = cat
    IN  [b EXCEPT !._conflict_items = conflicts,
                  !.tags = {n \in @ : ~branch(n)}
                           \cup {n \in BranchItems(b.days, day_idx, cat) :
                                    _item_tags_for(conflicts, n[1], n[2], n[3])}]

-----------------------------------------------------------------------------
(* scheduler.py: ScheduleBoard                                             *)

\* how many edits (add, delete, edit title, edit link, drop) one session makes
MaxEdits == 2

sBody == <<"B","o","d","y">>
sNew == <<"N","e","w">>
sNewPadded == <<" ","N","e","w"," ">>
sHttpB == <<"h","t","t","p",":","/","/","b">>

\* lines 367-385, __init__: nothing loaded.  `edits` counts the edits made and
\* `drop` names the path the last _on_drag_release took ("none" before any,
\* "no_row", "refused" or "moved"); neither is a field of the program.  `tags`
\* is the set of item rows of the tree that carry the "conflict" tag, and
\* `typed` the titles the user types into the prompts
NewApp(file, typed) ==
    [pc |-> "run", file |-> file, current_path |-> FALSE, days |-> <<>>,
     _front_matter |-> None, _md_body |-> None, _opened_as_front_matter |-> FALSE,
     _drag_source |-> None, _conflict_items |-> {}, tags |-> {},
     typed |-> typed, edits |-> 0, drop |-> "none"]

\* the tree rows: one per day, per category of a day, per item (_rebuild_tree)
DayNodes(days) == {[kind |-> "day", day |-> d, cat |-> "", idx |-> 0] : d \in DOMAIN days}
CatNodes(days) ==
    {[kind |-> "cat", day |-> d, cat |-> c, idx |-> 0] : d \in DOMAIN days, c \in Range(CATS)}
ItemNodes(days) ==
    UNION {{[kind |-> "item", day |-> d, cat |-> c, idx |-> i] : i \in DOMAIN days[d][c]} :
              d \in DOMAIN days, c \in Range(CATS)}

\* list.pop(i) and list.insert(i, x) with 1-based i; insert past the end appends
PopAt(list, i) == SubSeq(list, 1, i - 1) \o SubSeq(list, i + 1, Len(list))
InsertAt(list, i, x) ==
    IF i > Len(list) THEN Append(list, x)
    ELSE SubSeq(list, 1, i - 1) \o <<x>> \o SubSeq(list, i, Len(list))

CanEdit == board.pc = "run" /\ board._drag_source = None /\ board.edits < MaxEdits

\* lines 432-468, open_yaml_or_markdown_dialog on the file on disk
open_yaml_or_markdown_dialog ==
    /\ board.pc = "run"
    /\ board._drag_source = None
    /\ LET read == read_markdown_with_front_matter(board.file)
           reset == [board EXCEPT !.current_path = TRUE, !._opened_as_front_matter = FALSE,
                                  !._front_matter = None, !._md_body = None]
           data == SafeLoad(board.file.entries)
       IN  IF read.raised THEN board' = reset
           ELSE IF read.fm # None
           THEN IF NormalizeRaises(read.fm[1])
                THEN board' = [reset EXCEPT !._opened_as_front_matter = TRUE,
                                            !._front_matter = read.fm, !._md_body = read.body]
                ELSE board' = _rebuild_tree(
                                  [reset EXCEPT !._opened_as_front_matter = TRUE,
                                                !._front_matter = read.fm, !._md_body = read.body,
                                                !.days = SortDays(normalize_schedule_from_front_matter(read.fm[1]))])
           ELSE IF data = None \/ ~FmHas(data[1], "schedule") THEN board' = reset
           ELSE IF NormalizeRaises(data[1]) THEN board' = [reset EXCEPT !._front_matter = data]
           ELSE board' = _rebuild_tree(
                             [reset EXCEPT !._front_matter = data,
                                           !.days = SortDays(normalize_schedule_from_front_matter(data[1]))])
    /\ UNCHANGED <<updInputs, remoteVars, progVars, rub, conv, att, dry_log>>

\* what save writes for the model in memory
SavedFile(b) ==
    LET new_fm == serialize_schedule_to_front_matter(b.days, b._front_matter[1])
    IN  IF b._opened_as_front_matter
        THEN write_markdown_with_front_matter(new_fm, IF b._md_body = None THEN <<>> ELSE b._md_body[1])
        ELSE WriteYaml(new_fm)

\* lines 473-492, save: to the opened path; an error dialog when nothing is loaded
save ==
    /\ board.pc = "run"
    /\ board._drag_source = None
    /\ board.current_path
    /\ IF board._front_matter = None THEN board' = board
       ELSE board' = [board EXCEPT !.file = SavedFile(board)]
    /\ UNCHANGED <<updInputs, remoteVars, progVars, rub, conv, att, dry_log>>

\* lines 621-634, _edit_title: the prompt's text, stripped
_edit_title ==
    /\ CanEdit
    /\ \E node \in ItemNodes(board.days), new \in board.typed :
          board' = _refresh_category_branch(
                       [board EXCEPT !.days[node.day][node.cat][node.idx].title = Strip(new),
                                     !.edits = @ + 1],
                       node.day, node.cat)
    /\ UNCHANGED <<updInputs, remoteVars, progVars, rub, conv, att, dry_log>>

\* lines 636-654, _edit_link: an empty answer removes the link
_edit_link ==
    /\ CanEdit
    /\ \E node \in ItemNodes(board.days), new \in {<<>>, sHttpB} :
          board' = [board EXCEPT !.days[node.day][node.cat][node.idx].link =
                                     IF Strip(new) = <<>> THEN None ELSE Some(Strip(new)),
                                 !.edits = @ + 1]
    /\ UNCHANGED <<updInputs, remoteVars, progVars, rub, conv, att, dry_log>>

\* lines 656-670, _delete_item
_delete_item ==
    /\ CanEdit
    /\ \E node \in ItemNodes(board.days) :
          board' = _refresh_category_branch(
                       [board EXCEPT !.days[node.day][node.cat] = PopAt(@, node.idx),
                                     !.edits = @ + 1],
                       node.day, node.cat)
    /\ UNCHANGED <<updInputs, remoteVars, progVars, rub, conv, att, dry_log>>

\* lines 672-685, _add_item_under_category: a blank title adds nothing
_add_item_under_category ==
    /\ CanEdit
    /\ \E node \in CatNodes(board.days), title \in board.typed :
          IF Strip(title) = <<>> THEN board' = board
          ELSE board' = _refresh_category_branch(
                            [board EXCEPT !.days[node.day][node.cat] =
                                              Append(@, [title |-> Strip(title), link |-> None,
                                                         _extra |-> EmptyMap]),
                                          !.edits = @ + 1],
                            node.day, node.cat)
    /\ UNCHANGED <<updInputs, remoteVars, progVars, rub, conv, att, dry_log>>

\* lines 702-722, _on_drag_start: a press on an item row
_on_drag_start ==
    /\ CanEdit
    /\ \E node \in ItemNodes(board.days) :
          board' = [board EXCEPT !._drag_source = Some(node), !.drop = "none"]
    /\ UNCHANGED <<updInputs, remoteVars, progVars, rub, conv, att, dry_log>>

\* line 772: a drop is refused when the categories differ
DropRefused_Never(tgt_cat, src_cat) == FALSE

DropRefused(tgt_cat, src_cat) == tgt_cat # src_cat

\* the insert position taken from the target row as it is
MoveItem_NoAdjust(days, src, tgt, tgt_cat, lower) ==
    LET item == days[src.day][src.cat][src.idx]
        popped == [days EXCEPT ![src.day][src.cat] = PopAt(@, src.idx)]
        at == IF tgt.kind # "item" THEN Len(popped[tgt.day][tgt_cat]) + 1
              ELSE IF lower THEN tgt.idx + 1 ELSE tgt.idx
    IN  [popped EXCEPT ![tgt.day][tgt_cat] = InsertAt(@, at, item)]

\* lines 774-788: the day list after the dragged item is popped and inserted
MoveItem(days, src, tgt, tgt_cat, lower) ==
    LET item == days[src.day][src.cat][src.idx]
        popped == [days EXCEPT ![src.day][src.cat] = PopAt(@, src.idx)]
        at == IF tgt.kind # "item" THEN Len(popped[tgt.day][tgt_cat]) + 1
              ELSE LET pos == IF lower THEN tgt.idx + 1 ELSE tgt.idx
                   IN  IF src.day = tgt.day /\ src.cat = tgt_cat /\ src.idx < pos
                       THEN pos - 1 ELSE pos
    IN  [popped EXCEPT ![tgt.day][tgt_cat] = InsertAt(@, at, item)]

\* lines 797-801, _clear_drag
_clear_drag(b) == [b EXCEPT !._drag_source = None]

\* lines 750-796: the release over the row `tgt`, in its lower or upper half
DropOn(tgt, lower) ==
    LET src == board._drag_source[1]
        tgt_cat == IF tgt.kind = "day" THEN src.cat ELSE tgt.cat
    IN  IF DropRefused(tgt_cat, src.cat)
        THEN board' = [_clear_drag(board) EXCEPT !.drop = "refused"]
        ELSE board' = _clear_drag(
                          _refresh_category_branch(
                              _refresh_category_branch(
                                  [board EXCEPT
                                      !.days = MoveItem(board.days, src, tgt, tgt_cat, lower),
                                      !.edits = @ + 1, !.drop = "moved"],
                                  src.day, src.cat),
                              tgt.day, tgt_cat))

\* lines 737-801, _on_drag_release: over no row, or over a day, category or
\* item row; the drag state is cleared on every path
_on_drag_release ==
    /\ board.pc = "run"
    /\ board._drag_source # None
    /\ \/ board' = [_clear_drag(board) EXCEPT !.drop = "no_row"]
       \/ \E tgt \in DayNodes(board.days) \cup CatNodes(board.days) \cup ItemNodes(board.days),
             lower \in BOOLEAN : DropOn(tgt, lower)
    /\ UNCHANGED <<updInputs, remoteVars, progVars, rub, conv, att, dry_log>>

-----------------------------------------------------------------------------
(* The editor on one file                                                  *)

\* two rows of the schedule as generate-schedule.py prints them
BoardRowA ==
    [Week |-> sZero, Day |-> sZero, Title |-> sIntro, Link |-> sHttpA,
     d |-> [n \in 1..DeliverableSlots |->
               IF n = 1 THEN [dtitle |-> sQuiz1, dlink |-> sHttpA, dpoints |-> sTen,
                              drubric |-> sOkMd, dtype |-> sText]
               ELSE EmptyDeliverable],
     r |-> [n \in 1..ReadingSlots |->
               IF n = 1 THEN [rtitle |-> sCh1, rlink |-> <<>>] ELSE EmptyReading]]

BoardRowB ==
    [Week |-> sZero, Day |-> sOne, Title |-> sLab, Link |-> <<>>,
     d |-> [n \in 1..DeliverableSlots |-> EmptyDeliverable],
     r |-> [n \in 1..ReadingSlots |-> EmptyReading]]

ScalarEntry(key, value) == [key |-> key, line |-> SafeDumpLine(key, value), days |-> <<>>]

ScheduleEntry(rows) ==
    [key |-> "schedule", line |-> YamlLine(0, FALSE, "schedule", FALSE, <<>>),
     days |-> [i \in DOMAIN rows |-> ScheduleLines(rows[i])]]

\* the files the editor is started on: Markdown with the schedule between two
\* other keys, Markdown whose front matter has no schedule, and a pure YAML
\* file whose days are not in calendar order
BoardFiles ==
    { [md |-> TRUE, body |-> sBody,
       entries |-> <<ScalarEntry("info", YStr(sTen)), ScheduleEntry(<<BoardRowA, BoardRowB>>),
                     ScalarEntry("layout", YStr(sLab))>>],
      [md |-> TRUE, body |-> sBody,
       entries |-> <<ScalarEntry("info", YInt(10)), ScalarEntry("layout", YStr(sLab))>>],
      [md |-> FALSE, body |-> <<>>,
       entries |-> <<ScheduleEntry(<<BoardRowB, BoardRowA>>), ScalarEntry("info", YFalse)>>] }

InitBoard ==
    /\ fm = [course_start_date |-> MainStart, class_meets_days |-> MainDays,
             schedule |-> <<>>]
    /\ apply = FALSE
    /\ base_url = <<>>
    /\ rModules = <<>>
    /\ rAssignments = <<>>
    /\ rPages = <<>>
    /\ nextId = FirstFreeId
    /\ failsLeft = 0
    /\ pc = "done"
    /\ plan = [meetings |-> <<>>, deliverables_due |-> <<>>, deliverables_handed_out |-> <<>>]
    /\ due_map = <<>>
    /\ actions = <<>>
    /\ requests = <<>>
    /\ loc = LocInit
    /\ exitCode = None
    /\ rub = RubIdle
    /\ conv = ConvIdle
    /\ att = AttIdle
    /\ dry_log = None
    /\ \E file \in BoardFiles : board = NewApp(file, {<<>>, sNewPadded})

NextBoard ==
    \/ open_yaml_or_markdown_dialog
    \/ save
    \/ _edit_title
    \/ _edit_link
    \/ _delete_item
    \/ _add_item_under_category
    \/ _on_drag_start
    \/ _on_drag_release

SpecBoard == InitBoard /\ [][NextBoard]_vars


\* the file on disk is one the editor wrote: its items sit at the entry's own
\* indentation, as no file of BoardFiles has them, or its schedule is empty
\* where the front matter it was opened from had none
\* (used by the witnesses only)
FileWritten == board.pc = "run" /\ board.file \notin BoardFiles

\* the top-level keys with the values that are not the schedule's
OtherPairs(pairs) == SelectSeq(pairs, LAMBDA p : p.key # "schedule")

\* what a save step leaves of the loaded front matter in the written file
SavedKeys == FmKeys(SafeLoad(board'.file.entries)[1])
SavedOthers == OtherPairs(SafeLoad(board'.file.entries)[1])
SavedBodyKept == board._opened_as_front_matter => board'.file.body = board._md_body[1]
SaveWrites == save /\ board._front_matter # None

\* C18 (as stated): every save writes the top-level keys of the loaded front
\* matter, the same keys in the same order, each key other than 'schedule'
\* with its loaded value, and the Markdown body unchanged.
C18_SameKeysValuesBody ==
    [][SaveWrites =>
          /\ SavedKeys = FmKeys(board._front_matter[1])
          /\ SavedOthers = OtherPairs(board._front_matter[1])
          /\ SavedBodyKept]_vars

\* C18 (amended): every save writes the top-level keys of the loaded front
\* matter in their order, with 'schedule' added after them when the loaded
\* front matter had none; each key other than 'schedule' has its loaded value,
\* and the Markdown body is unchanged.
C18_KeysKeptScheduleAdded ==
    [][SaveWrites =>
          /\ SavedKeys = IF FmHas(board._front_matter[1], "schedule")
                         THEN FmKeys(board._front_matter[1])
                         ELSE Append(FmKeys(board._front_matter[1]), "schedule")
          /\ SavedOthers = OtherPairs(board._front_matter[1])
          /\ SavedBodyKept]_vars

\* a Markdown file saved after an edit, its schedule between two other keys
C18_Witness ==
    /\ FileWritten
    /\ board.file.md
    /\ board.edits > 0
    /\ board.file = SavedFile(board)
    /\ FmKeys(SafeLoad(board.file.entries)[1]) = <<"info", "schedule", "layout">>
    /\ board.file.body = sBody


\* title and link of every item, by day, category and position
BoardItems(days) ==
    [d \in DOMAIN days |->
        [c \in Range(CATS) |->
            [i \in DOMAIN days[d][c] |->
                [title |-> days[d][c][i].title, link |-> days[d][c][i].link]]]]

\* an open step that reads back what save writes for the model in memory
ReopensSaved ==
    /\ open_yaml_or_markdown_dialog
    /\ board._front_matter # None
    /\ board.file = SavedFile(board)

\* C19: reopening the file saved from the model in memory gives a day list with
\* the same items (title and link) in the same day, category and order, every
\* lecture of a day included.
C19_SaveReopenKeepsItems ==
    [][ReopensSaved => BoardItems(board'.days) = BoardItems(board.days)]_vars


\* the rows of a category other than the dragged item's
OtherCategoryRows ==
    IF board._drag_source = None THEN {}
    ELSE {tgt \in CatNodes(board.days) \cup ItemNodes(board.days) :
             tgt.cat # board._drag_source[1].cat}

\* C20: a release over a row of another category than the dragged item's
\* leaves the day list as it was and clears the drag state.
C20_CrossCategoryDropRejected ==
    [][\A tgt \in OtherCategoryRows, lower \in BOOLEAN :
          (_on_drag_release /\ DropOn(tgt, lower))
              => (board'.days = board.days /\ board'._drag_source = None)]_vars

\* an edited day list on which a drop was just refused, with items in two
\* categories of one day
C20_Witness ==
    /\ board.pc = "run"
    /\ board.drop = "refused"
    /\ board._drag_source = None
    /\ board.edits > 0
    /\ \E d \in DOMAIN board.days :
          board.days[d].readings # <<>> /\ board.days[d].deliverables # <<>>


-----------------------------------------------------------------------------
(* The editor on schedules with Due and Handed Out deliverables            *)

\* a schedule row with a title and the given deliverable titles
TreeRow(day, title, dtitles) ==
    [Week |-> sZero, Day |-> day, Title |-> title, Link |-> <<>>,
     d |-> [n \in 1..DeliverableSlots |->
               IF n <= Len(dtitles) THEN [EmptyDeliverable EXCEPT !.dtitle = dtitles[n]]
               ELSE EmptyDeliverable],
     r |-> [n \in 1..ReadingSlots |-> EmptyReading]]

TreeFile(rows) ==
    [md |-> TRUE, body |-> sBody, entries |-> <<ScheduleEntry(rows)>>]

\* Due before Handed Out; both on one day next to a Due without a Handed Out;
\* Handed Out before Due
TreeFiles ==
    { TreeFile(<<TreeRow(sZero, sIntro, <<sQuiz1Due>>), TreeRow(sOne, sLab, <<sQuiz1Out>>)>>),
      TreeFile(<<TreeRow(sZero, sIntro, <<sQuiz1Due, sQuiz1Out>>), TreeRow(sOne, sLab, <<sHW10Due>>)>>),
      TreeFile(<<TreeRow(sZero, sIntro, <<sQuiz1Out>>), TreeRow(sOne, sLab, <<sQuiz1Due>>)>>) }

InitTree ==
    /\ fm = [course_start_date |-> MainStart, class_meets_days |-> MainDays,
             schedule |-> <<>>]
    /\ apply = FALSE
    /\ base_url = <<>>
    /\ rModules = <<>>
    /\ rAssignments = <<>>
    /\ rPages = <<>>
    /\ nextId = FirstFreeId
    /\ failsLeft = 0
    /\ pc = "done"
    /\ plan = [meetings |-> <<>>, deliverables_due |-> <<>>, deliverables_handed_out |-> <<>>]
    /\ due_map = <<>>
    /\ actions = <<>>
    /\ requests = <<>>
    /\ loc = LocInit
    /\ exitCode = None
    /\ rub = RubIdle
    /\ conv = ConvIdle
    /\ att = AttIdle
    /\ dry_log = None
    /\ \E file \in TreeFiles : board = NewApp(file, {sQuiz1Due, sQuiz1Out})

\* a session that opens the file and edits the tree, without saving
NextTree ==
    \/ open_yaml_or_markdown_dialog
    \/ _edit_title
    \/ _delete_item
    \/ _add_item_under_category
    \/ _on_drag_start
    \/ _on_drag_release

SpecTree == InitTree /\ [][NextTree]_vars

\* the positions of every item of the day list
AllItems(days) ==
    UNION {BranchItems(days, d, c) : d \in DOMAIN days, c \in Range(CATS)}

BranchItemsOfCat(days, cat) == UNION {BranchItems(days, d, cat) : d \in DOMAIN days}

\* base title and kind of the deliverable at a position
BaseOf(days, n) == _normalize_deliverable_base(days[n[1]].deliverables[n[3]].title).base
KindOf(days, n) == _normalize_deliverable_base(days[n[1]].deliverables[n[3]].title).suff

\* the deliverables of one kind with the base title of the deliverable at n
Matching(days, n, kind) ==
    {m \in BranchItemsOfCat(days, "deliverables") :
        KindOf(days, m) = kind /\ BaseOf(days, m) = BaseOf(days, n)}

\* what the conflict pass is to flag
Flagged(days, n) ==
    \/ n[2] = "lectures" /\ n[3] > 1
    \/ /\ n[2] = "deliverables"
       /\ KindOf(days, n) = "Due"
       /\ Matching(days, n, "Handed Out") # {}
       /\ \/ \A h \in Matching(days, n, "Handed Out") :
                 DateKeyLess(_date_key(days[n[1]]), _date_key(days[h[1]]))
          \/ \E h \in Matching(days, n, "Handed Out") :
                 _date_key(days[n[1]]) = _date_key(days[h[1]])
    \/ /\ n[2] = "deliverables"
       /\ KindOf(days, n) = "Handed Out"
       /\ \E e \in Matching(days, n, "Due") : _date_key(days[n[1]]) = _date_key(days[e[1]])

\* C21: the conflict set holds exactly the lectures after the first of a day,
\* the Due deliverables dated before the earliest Handed Out of their base
\* title, and the Due and Handed Out deliverables of one base title on one
\* date; a base title with only one of the two kinds flags nothing.
C21_ConflictSet ==
    board._conflict_items = {n \in AllItems(board.days) : Flagged(board.days, n)}

\* a day list with a flagged second lecture, a flagged deliverable and a Due
\* deliverable that is not flagged
C21_Witness ==
    /\ \E n \in board._conflict_items : n[2] = "lectures"
    /\ \E n \in board._conflict_items : n[2] = "deliverables"
    /\ \E n \in BranchItemsOfCat(board.days, "deliverables") :
          KindOf(board.days, n) = "Due" /\ n \notin board._conflict_items


\* C30: an item row of the tree carries the "conflict" tag exactly when its
\* position is in the conflict set computed for the current day list, in
\* every day and category.
C30_TagsMatchConflicts ==
    board.tags = {n \in AllItems(board.days) : n \in _recompute_conflicts(board.days)}


\* every item of the day list, day after day and category after category
RECURSIVE FlatItems(_, _)
FlatItems(days, d) ==
    IF d > Len(days) THEN <<>>
    ELSE days[d].readings \o days[d].deliverables \o days[d].lectures \o FlatItems(days, d + 1)

\* how often each item occurs in the day list
ItemCounts(days) ==
    LET flat == FlatItems(days, 1)
    IN  [v \in Range(flat) |-> Cardinality({i \in DOMAIN flat : flat[i] = v})]

\* the list the drop is to leave in the target branch: the target list without
\* the dragged item, and the dragged item before or after the target item, or
\* at the end for a category or day row
ExpectedTarget(days, src, tgt, lower) ==
    LET same == src.day = tgt.day
        item == days[src.day][src.cat][src.idx]
        rest == IF same THEN PopAt(days[tgt.day][src.cat], src.idx) ELSE days[tgt.day][src.cat]
        tq == IF same /\ src.idx < tgt.idx THEN tgt.idx - 1 ELSE tgt.idx
    IN  IF tgt.kind # "item" THEN Append(rest, item)
        ELSE IF same /\ src.idx = tgt.idx THEN days[tgt.day][src.cat]
        ELSE InsertAt(rest, IF lower THEN tq + 1 ELSE tq, item)

\* the rows of the dragged item's category, and the day rows
SameCategoryRows ==
    IF board._drag_source = None THEN {}
    ELSE {tgt \in DayNodes(board.days) \cup CatNodes(board.days) \cup ItemNodes(board.days) :
             tgt.kind = "day" \/ tgt.cat = board._drag_source[1].cat}

\* C29: an accepted drop keeps the multiset of items, leaves every branch but
\* the source and target branch as it was, takes exactly the dragged item out
\* of the source branch and puts it into the target branch before or after
\* the target item, or at the end for a category or day row; a drop of an item
\* onto itself changes nothing.
C29_DropMovesOneItem ==
    [][\A tgt \in SameCategoryRows, lower \in BOOLEAN :
          (board'.drop = "moved" /\ DropOn(tgt, lower)) =>
              LET src == board._drag_source[1]
              IN  /\ ItemCounts(board'.days) = ItemCounts(board.days)
                  /\ Len(board'.days) = Len(board.days)
                  /\ \A d \in DOMAIN board.days, c \in Range(CATS) :
                        board'.days[d][c] =
                            IF c = src.cat /\ d = tgt.day
                            THEN ExpectedTarget(board.days, src, tgt, lower)
                            ELSE IF c = src.cat /\ d = src.day
                            THEN PopAt(board.days[d][c], src.idx)
                            ELSE board.days[d][c]
                  /\ (tgt.kind = "item" /\ tgt.day = src.day /\ tgt.idx = src.idx)
                        => board'.days = board.days]_vars

\* an item was just moved within a list that holds at least two, or into the
\* list of another day
C29_Witness ==
    /\ board.drop = "moved"
    /\ board.edits > 0
    /\ \E d \in DOMAIN board.days : Len(board.days[d].deliverables) >= 2


-----------------------------------------------------------------------------
(* attendance_report.py                                                    *)
(* A table is its columns in order, each a header and one cell per row; a  *)
(* cell is the text of the CSV field, and the empty text is NaN.  Scores    *)
(* are fractions, compared by cross-multiplication.  No cell of the model   *)
(* is a text pd.to_datetime parses that the date pattern of line 21 misses. *)

sNan == <<"n","a","n">>
sPresent == <<"p","r","e","s","e","n","t">>
sAbsent == <<"a","b","s","e","n","t">>
sLate == <<"l","a","t","e">>
sAttendanceNorm == <<"a","t","t","e","n","d","a","n","c","e","_","n","o","r","m">>

\* lines 49-55, label_map: the canonical label of a known spelling
LabelMap(x) ==
    CASE x \in {sPresent, <<"p">>, <<"h","e","r","e">>} -> sPresent
      [] x \in {sAbsent, <<"a">>,
                <<"u","n","e","x","c","u","s","e","d"," ">> \o <<"a","b","s","e","n","c","e">>,
                <<"e","x","c","u","s","e","d"," ">> \o <<"a","b","s","e","n","c","e">>} -> sAbsent
      [] x \in {sLate, <<"l">>, <<"t","a","r","d","y">>,
                sLate \o <<" ","a","r","r","i","v","a","l">>,
                sLate \o <<" ","c","h","e","c","k","-","i","n">>} -> sLate
      [] OTHER -> x

\* re.sub(r"[.,;:!?]+$", "", s) over the characters of the model
StripTrailingPunct(s) ==
    LET keep == {i \in DOMAIN s : s[i] \notin {".", ":"}}
    IN  IF keep = {} THEN <<>>
        ELSE SubSeq(s, 1, CHOOSE i \in keep : \A j \in keep : i >= j)

\* series.astype(str) of a cell
AsStr(cell) == IF cell = <<>> THEN sNan ELSE cell

\* lines 46-56, normalize_attendance on one cell
normalize_attendance(cell) ==
    Strip(LabelMap(StripTrailingPunct(Lower(Strip(AsStr(cell))))))

\* .isin(known).sum() over the normalized cells of a column
KnownHits(cells) ==
    Cardinality({i \in DOMAIN cells :
                    normalize_attendance(cells[i]) \in {sPresent, sAbsent, sLate}})

\* a mean of booleans hits/n compared with the decimal tenths/10; the mean of
\* no cell is NaN, which no comparison accepts
MeanAtLeast(hits, n, tenths) == n > 0 /\ 10 * hits >= tenths * n
MeanBelow_Eight(hits, n) == n > 0 /\ 10 * hits < 8 * n
MeanBelow(hits, n) == n > 0 /\ 10 * hits < 4 * n

\* lines 27-30, looks_like_attendance
looks_like_attendance(cells) == MeanAtLeast(KnownHits(cells), Len(cells), 7)

\* series.dropna().astype(str).str.strip()
DropNa(cells) == [i \in DOMAIN SelectSeq(cells, LAMBDA c : c # <<>>) |->
                     Strip(SelectSeq(cells, LAMBDA c : c # <<>>)[i])]

IsDigit(c) == c \in DigitChars

\* ^\d{1,4}[-/]\d{1,2}[-/]\d{1,4}$
DateLike(s) ==
    \E a \in 1..4, b \in 1..2, c \in 1..4 :
        /\ Len(s) = a + b + c + 2
        /\ \A i \in 1..a : IsDigit(s[i])
        /\ s[a + 1] \in {"-", "/"}
        /\ \A i \in (a + 2)..(a + b + 1) : IsDigit(s[i])
        /\ s[a + b + 2] \in {"-", "/"}
        /\ \A i \in (a + b + 3)..Len(s) : IsDigit(s[i])

CountWhere(cells, Test(_)) == Cardinality({i \in DOMAIN cells : Test(cells[i])})

\* lines 16-25, is_mostly_dates at thresh 0.65
is_mostly_dates(cells) ==
    LET s == DropNa(cells)
    IN  s # <<>> /\ 100 * CountWhere(s, DateLike) >= 65 * Len(s)

HasLetter(s) == \E i \in DOMAIN s : IsAlpha(s[i])
AllDigits(s) == s # <<>> /\ \A i \in DOMAIN s : IsDigit(s[i])

\* lines 32-37, is_mostly_numeric
is_mostly_numeric(cells) ==
    LET s == DropNa(cells)
    IN  s # <<>> /\ MeanAtLeast(CountWhere(s, AllDigits), Len(s), 7)

\* lines 39-44, has_letters at thresh 0.3
has_letters(cells) ==
    LET s == DropNa(cells)
    IN  s # <<>> /\ MeanAtLeast(CountWhere(s, HasLetter), Len(s), 3)

\* lines 13-14, norm_header
norm_header(h) == Lower(CollapseWs(Strip(h)))

\* df[header]: the cells of the column of that name
ColumnOf(df, header) == df[CHOOSE i \in DOMAIN df : df[i].header = header].cells

\* lines 58-70, find_attendance_column: the first column of the highest
\* score, None where KeyError is raised
BestAttendance(df) ==
    CHOOSE i \in DOMAIN df :
        /\ \A j \in DOMAIN df : KnownHits(df[j].cells) <= KnownHits(df[i].cells)
        /\ \A j \in 1..(i - 1) : KnownHits(df[j].cells) < KnownHits(df[i].cells)

find_attendance_column(df) ==
    IF df = <<>> \/ Len(df[1].cells) = 0 THEN None
    ELSE IF MeanBelow(KnownHits(df[BestAttendance(df)].cells), Len(df[1].cells)) THEN None
    ELSE Some(df[BestAttendance(df)].header)

\* df[name] = cells: in place for an existing column, as the last column otherwise
SetColumn(df, header, cells) ==
    IF \E i \in DOMAIN df : df[i].header = header
    THEN [i \in DOMAIN df |-> IF df[i].header = header
                              THEN [header |-> header, cells |-> cells] ELSE df[i]]
    ELSE Append(df, [header |-> header, cells |-> cells])

\* lines 100-111: the score of a column as a fraction num/den
\* (0.5 * letters + 0.3 * non_numeric + 0.2 * card, times 20 * len(s))
NameScore(cells) ==
    LET s == DropNa(cells)
        n == Len(s)
        letters == CountWhere(s, HasLetter)
        non_numeric == IF is_mostly_numeric(cells) THEN 0 ELSE 1
        nunique == Cardinality(Range(s))
        dist == IF 4 * nunique >= n THEN 4 * nunique - n ELSE n - 4 * nunique
        card == IF dist >= 4 * n THEN 0 ELSE 4 * n - dist
    IN  [num |-> 10 * letters + 6 * n * non_numeric + card, den |-> 20 * n]

ScoreGreater(a, b) == a.num * b.den > b.num * a.den

\* norm_map[alias]: the last column whose normalized header is alias
NormMapHas(df, alias) == \E i \in DOMAIN df : norm_header(df[i].header) = alias
NormMap(df, alias) ==
    df[CHOOSE i \in DOMAIN df :
          /\ norm_header(df[i].header) = alias
          /\ \A j \in DOMAIN df : norm_header(df[j].header) = alias => j <= i]

sStudentName == <<"s","t","u","d","e","n","t"," ","n","a","m","e">>
sStudent == <<"s","t","u","d","e","n","t">>
sName == <<"n","a","m","e">>
sStudentId == <<"s","t","u","d","e","n","t"," ","i","d">>

\* lines 79-84: the first alias header whose column is neither dates nor attendance
AliasChoice(df) ==
    LET ok(alias) == /\ NormMapHas(df, alias)
                     /\ ~is_mostly_dates(NormMap(df, alias).cells)
                     /\ ~looks_like_attendance(NormMap(df, alias).cells)
        hits == SelectSeq(<<sStudentName, sStudent, sName>>, ok)
    IN  IF hits = <<>> THEN None ELSE Some(NormMap(df, hits[1]).header)

\* lines 86-91: the Student ID column when it holds letters
StudentIdChoice(df) ==
    IF /\ NormMapHas(df, sStudentId)
       /\ has_letters(NormMap(df, sStudentId).cells)
       /\ ~looks_like_attendance(NormMap(df, sStudentId).cells)
       /\ ~is_mostly_dates(NormMap(df, sStudentId).cells)
    THEN Some(NormMap(df, sStudentId).header)
    ELSE None

\* line 96: the heuristic passes over the attendance column
SkipsColumn(header, attendance_col) == header = attendance_col

\* lines 93-117: the first column of the highest score among those kept
HeuristicChoice(df, attendance_col) ==
    LET kept == {i \in DOMAIN df :
                    /\ ~SkipsColumn(df[i].header, attendance_col)
                    /\ ~is_mostly_dates(df[i].cells)
                    /\ ~looks_like_attendance(df[i].cells)
                    /\ DropNa(df[i].cells) # <<>>}
        best == CHOOSE i \in kept :
                    /\ \A j \in kept : ~ScoreGreater(NameScore(df[j].cells), NameScore(df[i].cells))
                    /\ \A j \in kept : j < i =>
                          ScoreGreater(NameScore(df[i].cells), NameScore(df[j].cells))
    IN  IF kept = {} \/ df[best].header = <<>> THEN None ELSE Some(df[best].header)

\* lines 72-117, choose_student_name_column: None where KeyError is raised
choose_student_name_column(df, attendance_col) ==
    IF AliasChoice(df) # None THEN AliasChoice(df)
    ELSE IF StudentIdChoice(df) # None THEN StudentIdChoice(df)
    ELSE HeuristicChoice(df, attendance_col)

\* line 123: the headers with their whitespace collapsed
ReadCsv ==
    /\ att.pc = "read"
    /\ att' = [att EXCEPT !.pc = "find",
                          !.df = [i \in DOMAIN att.csv |->
                                     [header |-> CollapseWs(Strip(att.csv[i].header)),
                                      cells |-> att.csv[i].cells]]]
    /\ UNCHANGED <<updInputs, remoteVars, progVars, rub, conv, board, dry_log>>

\* line 126: find_attendance_column; a KeyError ends main with exit status 1
FindAttendance ==
    /\ att.pc = "find"
    /\ LET found == find_attendance_column(att.df)
       IN  IF found = None THEN att' = [att EXCEPT !.pc = "failed"]
           ELSE att' = [att EXCEPT !.pc = "normalize", !.attendance_col = found]
    /\ UNCHANGED <<updInputs, remoteVars, progVars, rub, conv, board, dry_log>>

\* line 127: df["attendance_norm"] = normalize_attendance(df[attendance_col])
AddAttendanceNorm ==
    /\ att.pc = "normalize"
    /\ LET cells == ColumnOf(att.df, att.attendance_col[1])
       IN  att' = [att EXCEPT !.pc = "choose",
                              !.df = SetColumn(@, sAttendanceNorm,
                                               [i \in DOMAIN cells |-> normalize_attendance(cells[i])])]
    /\ UNCHANGED <<updInputs, remoteVars, progVars, rub, conv, board, dry_log>>

\* line 130: choose_student_name_column(df, attendance_col)
ChooseStudent ==
    /\ att.pc = "choose"
    /\ LET chosen == choose_student_name_column(att.df, att.attendance_col[1])
       IN  IF chosen = None THEN att' = [att EXCEPT !.pc = "failed"]
           ELSE att' = [att EXCEPT !.pc = "chosen", !.student_col = chosen]
    /\ UNCHANGED <<updInputs, remoteVars, progVars, rub, conv, board, dry_log>>

-----------------------------------------------------------------------------
(* The aggregator on small attendance exports                              *)

AttRows == 10

nAnn == <<"A","n","n">>
nBob == <<"B","o","b">>
nCal == <<"C","a","l">>
nDee == <<"D","e","e">>
nEve == <<"E","v","e">>
nFay == <<"F","a","y">>
nGus == <<"G","u","s">>
nHal == <<"H","a","l">>
nIda == <<"I","d","a">>
nJon == <<"J","o","n">>
sDate1 == <<"9","/","2","/","2","0","2","5">>
sDate2 == <<"2","0","2","5","-","0","9","-","0","4">>
wPresent == <<"P","r","e","s","e","n","t">>
wAbsent == <<"A","b","s","e","n","t">>
wLateDot == <<" ","L","a","t","e",".">>
wTardy == <<"t","a","r","d","y">>
wSick == <<"s","i","c","k">>
wLeft == <<"l","e","f","t"," ","e","a","r","l","y">>
wRemote == <<"r","e","m","o","t","e">>

AttColumn(header, cells) == [header |-> header, cells |-> cells]

\* a column of AttRows cells that repeats the given cells in order
Cycle(cells) == [i \in 1..AttRows |-> cells[((i - 1) % Len(cells)) + 1]]

\* a status column of AttRows cells, the first k of them attendance labels
StatusCells(k) ==
    LET known == Cycle(<<wPresent, wAbsent, wLateDot, <<"P">>, wTardy,
                         wPresent, wAbsent, wPresent, <<"a">>, wPresent>>)
        other == Cycle(<<wSick, wRemote, wLeft, wSick, wRemote,
                         wSick, wLeft, wSick, wRemote, <<>> >>)
    IN  [i \in 1..AttRows |-> IF i <= k THEN known[i] ELSE other[i]]

AttPool ==
    { AttColumn(<<"L","e","a","r","n","e","r">>,
                Cycle(<<nAnn, nBob, nCal, nDee, nEve, nFay, nGus, nHal, nIda, nJon>>)),
      AttColumn(<<"S","t","u","d","e","n","t"," "," ","N","a","m","e"," ">>,
                Cycle(<<nAnn, nBob, nCal>>)),
      AttColumn(<<"S","t","u","d","e","n","t"," ","I","D">>,
                Cycle(<<nAnn, nBob, nCal>>)),
      AttColumn(<<"D","a","t","e">>,
                Cycle(<<sDate1, sDate1, sDate1, sDate1, sDate1,
                        sDate2, sDate2, sDate2, sDate2, sDate2>>)),
      AttColumn(<<"S","t","a","t","u","s">>, StatusCells(AttRows)),
      AttColumn(<<"M","a","r","k">>, StatusCells(7)),
      AttColumn(<<"A","t","t","e","n","d","a","n","c","e">>, StatusCells(5)),
      AttColumn(<<"C","h","e","c","k">>, StatusCells(4)),
      AttColumn(<<"N","o","t","e">>, StatusCells(3)) }

\* the exports: two or three columns of the pool, in any order
AttTables ==
    {<<a, b>> : a \in AttPool, b \in AttPool} \cup
    {<<a, b, c>> : a \in AttPool, b \in AttPool, c \in AttPool}

DistinctHeaders(t) == \A i, j \in DOMAIN t : t[i].header = t[j].header => i = j

InitAttendance ==
    /\ fm = [course_start_date |-> MainStart, class_meets_days |-> MainDays,
             schedule |-> <<>>]
    /\ apply = FALSE
    /\ base_url = <<>>
    /\ rModules = <<>>
    /\ rAssignments = <<>>
    /\ rPages = <<>>
    /\ nextId = FirstFreeId
    /\ failsLeft = 0
    /\ pc = "done"
    /\ plan = [meetings |-> <<>>, deliverables_due |-> <<>>, deliverables_handed_out |-> <<>>]
    /\ due_map = <<>>
    /\ actions = <<>>
    /\ requests = <<>>
    /\ loc = LocInit
    /\ exitCode = None
    /\ rub = RubIdle
    /\ conv = ConvIdle
    /\ board = BoardIdle
    /\ dry_log = None
    /\ \E t \in AttTables :
          /\ DistinctHeaders(t)
          /\ att = [pc |-> "read", csv |-> t, df |-> <<>>,
                    attendance_col |-> None, student_col |-> None]

NextAttendance ==
    \/ ReadCsv
    \/ FindAttendance
    \/ AddAttendanceNorm
    \/ ChooseStudent

SpecAttendance == InitAttendance /\ [][NextAttendance]_vars

\* the table find_attendance_column is given: the export with its headers cleaned
GivenTable ==
    [i \in DOMAIN att.csv |-> [header |-> CollapseWs(Strip(att.csv[i].header)),
                              cells |-> att.csv[i].cells]]

MeetsBar(cells) == 10 * KnownHits(cells) >= 7 * Len(cells)
ReachesFloor(cells) == 10 * KnownHits(cells) >= 4 * Len(cells)
FindReturned == att.pc \in {"normalize", "choose", "chosen"} \/ att.student_col # None
                   \/ (att.pc = "failed" /\ att.attendance_col # None)
FindRaised == att.pc = "failed" /\ att.attendance_col = None

C23_StudentColumnNotAttendance ==
    att.pc = "chosen" =>
        /\ att.student_col # att.attendance_col
        /\ att.student_col # Some(sAttendanceNorm)


-----------------------------------------------------------------------------
(* Both phases of main() over assignment lists with similar names          *)

sQuiz10Due == sQuiz10 \o <<" ","D","u","e">>

\* a first meeting that hands out "Quiz 1" and names Due deliverables, and a
\* second meeting for the day the work is due, with or without "Quiz 10 Due"
PhaseFrontMatters ==
    {[course_start_date |-> MainStart, class_meets_days |-> MainDays,
      schedule |-> <<Row(<<0, 0>>, [ContentQuizPage EXCEPT !.deliverables = @ \o ds]),
                     Row(<<0, 1>>, [ContentEmpty EXCEPT !.deliverables = later])>>] :
     ds \in {<<[dtitle |-> sQuiz1Due]>>, <<[dtitle |-> sHW10Due]>>,
             <<[dtitle |-> sQuiz1Due], [dtitle |-> sHW10Due]>>},
     later \in {<<>>, <<[dtitle |-> sQuiz10Due]>>}}

InitPhases ==
    /\ fm \in PhaseFrontMatters
    /\ apply \in BOOLEAN
    /\ base_url = <<>>
    /\ rModules \in {OldModules(n) : n \in 0..1}
    /\ rAssignments \in MatchAssignmentLists
    /\ rPages = <<>>
    /\ nextId = FirstFreeId
    /\ failsLeft = 0
    /\ ProgInit
    /\ rub = RubIdle
    /\ conv = ConvIdle
    /\ board = BoardIdle
    /\ att = AttIdle
    /\ dry_log = None

SpecPhases == InitPhases /\ [][Next]_vars

\* the entry apply_due_dates logged for a key of the due map
DueEntryOf(key) == DueLog[CHOOSE k \in DOMAIN DueLog : DueLog[k].txt = key]

\* what one step appended to the log
NewEntries == SubSeq(actions', Len(actions) + 1, Len(actions'))

\* C24: a Due deliverable resolves to the same remote assignment in both
\* phases: the assignment that rebuild_all_modules attaches for it is the one
\* apply_due_dates matched for its key, and none is attached exactly when none
\* was matched.
C24_SameAssignmentBothPhases ==
    [][(pc = "dues" /\ DueAttachStep) =>
          LET due == DueEntryOf(DueKey(plan.deliverables_due[loc.i]))
          IN  \A k \in DOMAIN NewEntries :
                 /\ NewEntries[k].kind = "assignment" =>
                       due.tag \in {"update", "skip"} /\ NewEntries[k].num = due.num
                 /\ NewEntries[k].kind = "no-assignment-object" => due.tag = "warn"]_vars

\* the due-date updates sent for an assignment, as positions in the request log
DueUpdatesOf(id) ==
    {i \in DOMAIN requests :
        requests[i].m = "PUT" /\ requests[i].res = "assignment" /\ requests[i].id = id}

\* C25: in one run of apply_due_dates no remote assignment receives more than
\* one due-date update: two distinct keys of the due map never resolve to the
\* same assignment.
C25_OneUpdatePerAssignment ==
    \A a \in Range(rAssignments) : Cardinality(DueUpdatesOf(a.id)) <= 1


-----------------------------------------------------------------------------
(* A dry run followed by an apply run (usage steps 3 and 4)                *)

\* the script is started again with --apply on the same file, after a dry run
\* that ended with status 0; the course is as the dry run left it
RunWithApply ==
    /\ pc = "done"
    /\ exitCode = Some(0)
    /\ ~apply
    /\ apply' = TRUE
    /\ dry_log' = Some(actions)
    /\ pc' = "start"
    /\ plan' = [meetings |-> <<>>, deliverables_due |-> <<>>, deliverables_handed_out |-> <<>>]
    /\ due_map' = <<>>
    /\ actions' = <<>>
    /\ requests' = <<>>
    /\ loc' = LocInit
    /\ exitCode' = None
    /\ UNCHANGED <<fm, base_url, remoteVars, rub, conv, board, att>>

InitDryThenApply ==
    /\ fm \in MainFrontMatters
    /\ apply = FALSE
    /\ base_url = <<>>
    /\ rModules \in {OldModules(n) : n \in 0..MaxOldModules}
    /\ rAssignments \in MainAssignmentLists
    /\ rPages = MainPages
    /\ nextId = FirstFreeId
    /\ failsLeft = 0
    /\ ProgInit
    /\ rub = RubIdle
    /\ conv = ConvIdle
    /\ board = BoardIdle
    /\ att = AttIdle
    /\ dry_log = None

NextDryThenApply ==
    \/ Next
    \/ RunWithApply

SpecDryThenApply == InitDryThenApply /\ [][NextDryThenApply]_vars

PredictedTags == {"add", "skip", "warn", "del-item", "del-module", "create-module"}

\* the entries of a log the prediction is about, without the "(dry-run)" marker
\* and without the module ids (a dry run numbers its modules -1, -2, ...)
PredictedEntries(log) ==
    LET kept == SelectSeq(log, LAMBDA e : e.tag \in PredictedTags)
    IN  [i \in DOMAIN kept |-> [kept[i] EXCEPT !.dry = FALSE, !.mod = 0]]

\* C26: the dry-run log predicts the apply run: for the same plan and the same
\* remote state, when every remote call succeeds, the [add], [skip], [warn],
\* [del-item], [del-module] and [create-module] entries of the apply run are
\* those of the dry run once the "(dry-run)" marker is removed.
C26_DryRunPredictsApply ==
    (dry_log # None /\ pc = "done" /\ exitCode = Some(0)) =>
        PredictedEntries(actions) = PredictedEntries(dry_log[1])


-----------------------------------------------------------------------------
(* The rubric script creates the assignments, then the schedule updater runs *)

\* Mondays: of the week before daylight-saving time begins (2025-03-09), of the
\* week before it ends (2025-11-02), and of a week far from both
HandoverStarts == {<<2025, 3, 3>>, <<2025, 10, 27>>, <<2025, 8, 25>>}

HandoverRow(o, dtitle) ==
    [Row(<<0, o>>, ContentEmpty) EXCEPT
        !.deliverables = <<[dtitle |-> dtitle, rubricpath |-> <<>>]>>]

\* a class that meets every day: one meeting with "HW 10 Due", and possibly a
\* second one with "Quiz 1 Due"
HandoverFrontMatters ==
    {[course_start_date |-> st, class_meets_days |-> {"M", "T", "W", "R", "F", "S", "U"},
      schedule |-> sch] :
     st \in HandoverStarts,
     sch \in {<<HandoverRow(o, sHW10Due)>> : o \in 0..6} \cup
             {<<HandoverRow(o1, sHW10Due), HandoverRow(o2, sQuiz1Due)>> :
                  o1 \in 0..6, o2 \in 0..6}}

InitHandover ==
    /\ fm \in HandoverFrontMatters
    /\ apply = FALSE
    /\ base_url = <<>>
    /\ rModules = <<>>
    /\ rAssignments = <<>>
    /\ rPages = <<>>
    /\ nextId = FirstFreeId
    /\ failsLeft = 0
    /\ pc = "rub_start"
    /\ plan = [meetings |-> <<>>, deliverables_due |-> <<>>, deliverables_handed_out |-> <<>>]
    /\ due_map = <<>>
    /\ actions = <<>>
    /\ requests = <<>>
    /\ loc = LocInit
    /\ exitCode = None
    /\ rub = RubIdle
    /\ conv = ConvIdle
    /\ board = BoardIdle
    /\ att = AttIdle
    /\ dry_log = None

\* canvas_update_schedule.py is started on the same syllabus once the rubric
\* script has ended
RunUpdater ==
    /\ pc = "done"
    /\ exitCode = Some(0)
    /\ rub.work # <<>>
    /\ plan.meetings = <<>>
    /\ pc' = "start"
    /\ exitCode' = None
    /\ actions' = <<>>
    /\ requests' = <<>>
    /\ UNCHANGED <<fm, apply, base_url, remoteVars, plan, due_map, loc, rub, conv, board,
                   att, dry_log>>

NextHandover ==
    \/ StartRubricPass
    \/ EnsureAssignment
    \/ RunUpdater
    \/ ExtractPlan
    \/ BuildDueMap
    \/ DueListAssignments
    \/ DueStep

SpecHandover == InitHandover /\ [][NextHandover]_vars

\* the updater runs after the rubric script, on the meeting dates it used
UpdaterRanAfter ==
    /\ rub.work # <<>>
    /\ plan.meetings # <<>>
    /\ \A k \in DOMAIN rub.work : rub.work[k].class_dt = plan.meetings[k].date

\* C28: the two scripts agree on the due instant of a deliverable given the same
\* meeting date: the due_at ensure_assignment sets on creation is the instant
\* build_due_map computes, so the updater run right after creation reports
\* [skip] for every assignment.
C28_UpdaterSkipsCreated ==
    UpdaterRanAfter =>
        /\ \A k \in DOMAIN DueLog : DueLog[k].tag = "skip"
        /\ \A a \in Range(rAssignments) :
              \A k \in DOMAIN due_map :
                 due_map[k].key = AssignmentKey(a) => due_map[k].iso = a.due_at


====
